---------------------------- MODULE Spec2Model ----------------------------
(***************************************************************************)
(* The concurrent acquisition engine of the CRX crawler: crawl(),          *)
(* processBatch(), downloadExtension() and the download strategies, in the *)
(* two variants of the repository:                                         *)
(*   "enhanced"  src/src/crx-crawler/crx-crawler.js (four strategies)      *)
(*   "direct"    src/unnamed/part_001, lines 131-740 (direct API only)     *)
(* One action is one run of code between two suspension points (await,     *)
(* timer, I/O callback) of the single-threaded event loop.                 *)
(***************************************************************************)
EXTENDS Integers, Sequences, FiniteSets, TLC

(***************************************************************************)
(* Bounds of the model.                                                    *)
(***************************************************************************)
MaxIds == 2          \* longest identifier list of the full specification
MaxSchedIds == 5     \* longest identifier list of the scheduler specification
MaxHops == 1         \* longest redirect chain followed by one request
MaxOrphans == 1      \* abandoned requests alive at one time
MaxRuns == 2         \* crawl() invocations on one crawler instance
MaxDupIds == 2       \* longest identifier list with repeated identifiers
MaxSource == 2       \* most candidate entries in the identifier file
ChunkSize == 1500    \* bytes piped from a response to the file in one step

(***************************************************************************)
(* Program constants.                                                      *)
(***************************************************************************)
SkipThreshold == 1000       \* stats.size > 1000 (existing-artifact check)
MinDownloadSize == 1000     \* stats.size < 1000 (download validation)
MinBlobSize == 1000         \* stats.size < 1000 (blob download validation)
RetryEnhanced == 3          \* retryAttempts of main(), crx-crawler.js
RetryDirect == 2            \* retryAttempts of main(), direct variant
IdLength == 32              \* /^[a-p]{32}$/

Variants == {"enhanced", "direct"}
Concurrencies == {1, 2}     \* concurrency of the two test crawlers
Intervals == {2, 4}         \* values given to checkpointInterval
Identifiers == <<"a", "b", "c", "d", "e", "f", "g">>
NoFile == -1                \* fs.stat rejects: no file at the path
BodySizes == {999, 1000, 3000}   \* byte lengths of a 200 response's body
RemoteKinds ==
  {"error", "status", "redirect", "loop", "timeout", "nocontent",
   "notmodified"}
FaultKinds == {"path", "mkdir", "launch", "checkpoint", "report"}
PageKinds == {"throw", "nolink", "link"}

Max(a, b) == IF a >= b THEN a ELSE b
Min(a, b) == IF a <= b THEN a ELSE b

\* this.downloadStrategies, set by the constructor
downloadStrategies(v) ==
  IF v = "enhanced"
    THEN <<"crxviewer", "directapi", "crxextractor", "crxviewer_com">>
    ELSE <<"directapi">>

\* number of entries of apiUrls in downloadViaDirectAPI
NumApiUrls(v) == IF v = "enhanced" THEN 3 ELSE 4

\* this.retryAttempts
retryAttempts(v) == IF v = "enhanced" THEN RetryEnhanced ELSE RetryDirect

\* path.join(this.downloadDir, `${extensionId}.zip`) in downloadExtension
expectedFile(id) == <<"downloadDir", id, ".zip">>

\* a faulty path that keeps the extension of the package format;
\* DeterministicPath fails with it
crxFilepath(id) == <<"downloadDir", id, ".crx">>

\* filepath of downloadFileDirectly
directFilepath(id) == <<"downloadDir", id, ".zip">>

\* expectedFilename and filepath of downloadFileFromBlob
blobFilepath(id) == <<"downloadDir", id, ".zip">>

VARIABLES
  variant,             \* which of the two crawler classes runs
  concurrency,         \* this.concurrency
  checkpointInterval,  \* this.checkpointInterval
  extensionIds,        \* the argument of crawl()
  remote,              \* what the remote services answer in this behaviour:
                       \* kinds of answer, and body lengths of 200 responses
  faults,              \* the local failures that occur in this behaviour
  source,              \* the candidate entries of the identifier file that
                       \* main() loads; empty when crawl() is called directly
  runsLeft,            \* crawl() invocations still to be made
  files,               \* size of downloadDir/<id>.zip, NoFile when absent
  stats,               \* this.stats
  phase,               \* position of crawl() / processBatch()
  i,                   \* loop variable i of processBatch
  results,             \* the results array of processBatch
  tasks,               \* the per-item async functions of the current batch
  orphans,             \* requests still running whose promise is settled
  pages,               \* pages open in the browser
  checkpoints,         \* checkpoint documents written so far
  returned,            \* what crawl() returned, one entry per finished run
  reports,             \* the report documents written, one per finished run
  batches,             \* the batch slices formed by the current run
  netCalls,            \* strategy calls made by the current run
  closeCalls           \* calls of close() made by the current run

vars == <<variant, concurrency, checkpointInterval, extensionIds, remote,
          faults, runsLeft, files, stats, phase, i, results, tasks, orphans,
          pages, checkpoints, returned, batches, netCalls, source, reports,
          closeCalls>>

config == <<variant, concurrency, checkpointInterval, extensionIds, remote,
            faults, source>>

Slots == 0 .. 1      \* indexes of a batch: 0 .. max(Concurrencies) - 1

N == Len(extensionIds)

Strategies == downloadStrategies(variant)

\* this.stats as the constructor leaves it
NewStats ==
  [total |-> 0, completed |-> 0, failed |-> 0, notFound |-> 0, skipped |-> 0,
   lastCheckpoint |-> 0, strategyStats |-> [s \in {} |-> 0]]

\* a slot of the batch with no async function running in it
Idle ==
  [pc |-> "idle", id |-> "", attempt |-> 0, strat |-> 0, url |-> 0,
   hop |-> 0, body |-> 0, written |-> 0, calls |-> 0, tried |-> << >>,
   throws |-> 0, checked |-> FALSE, exhaustedAt |-> 0, delay |-> 0,
   statusCode |-> 0, location |-> FALSE, leg |-> 0,
   result |-> [status |-> "none"]]


(***************************************************************************)
(* The batch scheduler: crawl() and processBatch().                        *)
(***************************************************************************)

\* whether an operation that fails only under fault `f` succeeds
Outcomes(f) == IF f \in faults THEN BOOLEAN ELSE {TRUE}

\* a faulty slice that stops one identifier early; Partition fails with it
batchSliceShort(ids, k, c) == SubSeq(ids, k + 1, Min(k + c - 1, Len(ids)))

\* extensionIds.slice(k, k + this.concurrency), k counted from 0 as in the code
batchSlice(ids, k, c) == SubSeq(ids, k + 1, Min(k + c, Len(ids)))

\* a faulty stagger that delays no task; StaggeredStart fails with it
staggerDelayFlat(v, index) == 0

\* the argument of the staggered sleep: index * 1000, index * 200
staggerDelay(v, index) ==
  IF v = "enhanced" THEN index * 1000 ELSE index * 200

\* batch.map(async (extensionId, index) => ...): one async function per item,
\* each suspended in its staggered sleep(index * stagger)
launch(batch) ==
  [j \in Slots |->
     IF j < Len(batch)
       THEN [Idle EXCEPT !.pc = "sleep", !.id = batch[j + 1],
                         !.delay = staggerDelay(variant, j)]
       ELSE Idle]

\* the test of the for loop of processBatch with loop variable k: the next
\* batch is launched, or the loop ends, processBatch returns and crawl()
\* starts generateFinalReport; a batch records whether the inter-batch delay
\* was slept just before its launch
loopFrom(k, bs) ==
  /\ i' = k
  /\ IF k < N
       THEN /\ phase' = "await"
            /\ tasks' = launch(batchSlice(extensionIds, k, concurrency))
            /\ batches' = Append(bs,
                 [from |-> k, ids |-> batchSlice(extensionIds, k, concurrency),
                  delayed |-> phase = "delay"])
       ELSE /\ phase' = "report"
            /\ tasks' = [j \in Slots |-> Idle]
            /\ batches' = bs

\* a faulty test that sleeps after the last batch too; InterBatchDelay fails
\* with it
delayDueAlways(k) == TRUE

\* i + this.concurrency < extensionIds.length at loop variable k
delayDue(k) == k + concurrency < N

\* the code of processBatch after the checkpoint step: the inter-batch delay
\* if another batch follows, else the increment and the (failing) loop test
afterCheckpoint ==
  IF delayDue(i)
    THEN /\ phase' = "delay"
         /\ tasks' = [j \in Slots |-> Idle]
         /\ UNCHANGED <<i, batches>>
    ELSE loopFrom(i + concurrency, batches)

\* a faulty trigger that needs more than the interval; CheckpointTrigger
\* fails with it
checkpointDueStrict(res, st) == Len(res) - st.lastCheckpoint > checkpointInterval

\* a faulty trigger that waits for a whole batch more than the interval;
\* UnsavedBound fails with it
checkpointDueLate(res, st) ==
  Len(res) - st.lastCheckpoint >= checkpointInterval + concurrency

\* results.length - this.stats.lastCheckpoint >= this.checkpointInterval
checkpointDue(res, st) == Len(res) - st.lastCheckpoint >= checkpointInterval

\* a faulty checkpoint document that misses the last result pushed;
\* CheckpointConsistency fails with it
checkpointDataStale(res, st) ==
  [processed |-> Len(res), results |-> SubSeq(res, 1, Len(res) - 1), stats |-> st]

\* a faulty checkpoint document that holds only the results pushed since the
\* checkpoint before it; CheckpointsAdditive fails with it
checkpointDataDelta(res, st) ==
  [processed |-> Len(res),
   results |-> SubSeq(res, st.lastCheckpoint + 1, Len(res)),
   stats |-> st]

\* the document saveCheckpoint serialises
checkpointData(res, st) == [processed |-> Len(res), results |-> res, stats |-> st]

\* a faulty crawl() whose errors leave it without running the finally block;
\* RunLifecycle fails with it
rethrownUnclosed == "failed"

\* a faulty processBatch that swallows the error of a checkpoint write and
\* goes on with the loop; CheckpointFailureAborts fails with it
rethrownSwallowed == "delay"

\* the catch block of crawl() rethrows: the finally block awaits close()
\* before crawl() rejects
rethrown == "close_error"

\* crawl(extensionIds) is called; it awaits fs.mkdir
Crawl ==
  /\ phase \in {"idle", "done"}
  /\ runsLeft > 0
  /\ runsLeft' = runsLeft - 1
  /\ phase' = "mkdir"
  /\ closeCalls' = 0
  /\ UNCHANGED <<config, files, stats, i, results, tasks, orphans, pages,
                 checkpoints, returned, reports, batches, netCalls>>

\* fs.mkdir settles: on success stats.total is set and initialize() awaited;
\* on failure crawl() rejects before its try block
MkdirDone ==
  /\ phase = "mkdir"
  /\ \E ok \in Outcomes("mkdir") :
       IF ok
         THEN /\ stats' = [stats EXCEPT !.total = N]
              /\ phase' = "init"
         ELSE /\ phase' = "failed"
              /\ stats' = stats
  /\ UNCHANGED <<config, closeCalls, runsLeft, files, i, results, tasks, orphans, pages,
                 checkpoints, returned, reports, batches, netCalls>>

\* initialize() settles: processBatch starts with an empty results array and
\* launches the first batch; on failure (puppeteer.launch of crx-crawler.js
\* rejected; the direct variant launches nothing) close() runs and crawl()
\* rethrows
InitializeDone ==
  /\ phase = "init"
  /\ \E ok \in IF variant = "enhanced" THEN Outcomes("launch") ELSE {TRUE} :
       IF ok
         THEN /\ results' = << >>
              /\ netCalls' = 0
              /\ loopFrom(0, << >>)
         ELSE /\ phase' = rethrown
              /\ UNCHANGED <<results, netCalls, batches, i, tasks>>
  /\ UNCHANGED <<config, closeCalls, runsLeft, files, stats, orphans, pages, checkpoints,
                 returned, reports>>

\* a faulty join that settles with the first promise of the batch (the
\* behaviour of Promise.race); BatchBarrier fails with it
anySettled(ts) == \E j \in Slots : ts[j].pc = "done"

\* Promise.all settles once every promise of the batch has
allSettled(ts) == \A j \in Slots : ts[j].pc \in {"idle", "done"}

\* a faulty join value, the results in completion-independent reverse order;
\* OneResultPerIdentifier fails with it
reversedResults(ts) ==
  LET n == Cardinality({j \in Slots : ts[j].pc = "done"})
  IN  [k \in 1 .. n |-> ts[n - k].result]

\* the value of Promise.all: the results of the batch in index order
batchResults(ts) ==
  [k \in 1 .. Cardinality({j \in Slots : ts[j].pc = "done"}) |-> ts[k - 1].result]

\* Promise.all(batchPromises) resolves: the batch's results are pushed in
\* index order, then the checkpoint test, then the rest of the loop body
Join ==
  /\ phase = "await"
  /\ allSettled(tasks)
  /\ LET res == results \o batchResults(tasks)
     IN  /\ results' = res
         /\ IF checkpointDue(res, stats)
              THEN /\ phase' = "checkpoint"
                   /\ tasks' = [j \in Slots |-> Idle]
                   /\ UNCHANGED <<i, batches>>
              ELSE afterCheckpoint
  /\ UNCHANGED <<config, closeCalls, runsLeft, files, stats, orphans, pages, checkpoints,
                 returned, reports, netCalls>>

\* fs.writeFile of saveCheckpoint settles: lastCheckpoint is advanced and the
\* loop body continues; on failure processBatch rejects, close() runs and
\* crawl() rethrows
CheckpointDone ==
  /\ phase = "checkpoint"
  /\ \E ok \in Outcomes("checkpoint") :
       IF ok
         THEN /\ checkpoints' = Append(checkpoints, checkpointData(results, stats))
              /\ stats' = [stats EXCEPT !.lastCheckpoint = Len(results)]
              /\ afterCheckpoint
         ELSE /\ phase' = rethrown
              /\ UNCHANGED <<checkpoints, stats, i, tasks, batches>>
  /\ UNCHANGED <<config, closeCalls, runsLeft, files, results, orphans, pages, returned, reports,
                 netCalls>>

\* the inter-batch sleep(this.delayBetweenRequests) ends: i += concurrency
DelayDone ==
  /\ phase = "delay"
  /\ loopFrom(i + concurrency, batches)
  /\ UNCHANGED <<config, closeCalls, runsLeft, files, stats, results, orphans, pages,
                 checkpoints, returned, reports, netCalls>>

\* results.filter(r => r.status === status)
withStatus(res, status) == SelectSeq(res, LAMBDA r : r.status = status)

\* the keys of strategyBreakdown in the order of their insertion: the
\* strategies of the success records in the order of first appearance
RECURSIVE breakdownKeys(_)
breakdownKeys(successful) ==
  IF successful = << >>
    THEN << >>
    ELSE LET front == breakdownKeys(SubSeq(successful, 1, Len(successful) - 1))
             strategy == successful[Len(successful)].strategy
         IN  IF strategy = "" \/ strategy \in {front[k] : k \in 1 .. Len(front)}
               THEN front
               ELSE Append(front, strategy)

\* strategyBreakdown: the number of success records of each strategy
strategyBreakdown(successful) ==
  LET keys == breakdownKeys(successful)
  IN  [x \in {keys[k] : k \in 1 .. Len(keys)} |->
         Cardinality({p \in 1 .. Len(successful) : successful[p].strategy = x})]

\* a faulty reducer that keeps the strategy with fewer successes;
\* MostEffectiveStrategy fails with it
lessEffective(bd, a, b) == IF a # "" /\ bd[a] < bd[b] THEN a ELSE b

\* the reducer strategyBreakdown[a] > strategyBreakdown[b] ? a : b; the
\* count of the initial value '' is undefined and compares false
moreEffective(bd, a, b) == IF a # "" /\ bd[a] > bd[b] THEN a ELSE b

\* Object.keys(strategyBreakdown).reduce(..., a) from the k-th key on
RECURSIVE reduceKeys(_, _, _, _)
reduceKeys(keys, bd, a, k) ==
  IF k > Len(keys)
    THEN a
    ELSE reduceKeys(keys, bd, moreEffective(bd, a, keys[k]), k + 1)

\* the report document of generateFinalReport: the counts, the strategy
\* analysis and the breakdown
generateFinalReport(res, st) ==
  LET successful == withStatus(res, "success")
      notFound == withStatus(res, "not_found")
      failed == withStatus(res, "failed")
      skipped == withStatus(res, "skipped")
  IN  [extensions_targeted |-> st.total,
       statistics |->
         [successful_downloads |-> Len(successful),
          extensions_not_found |-> Len(notFound),
          failed_downloads |-> Len(failed),
          skipped_existing |-> Len(skipped)],
       strategy_analysis |->
         IF variant = "enhanced"
           THEN [strategy_breakdown |-> strategyBreakdown(successful),
                 most_effective_strategy |->
                   reduceKeys(breakdownKeys(successful),
                              strategyBreakdown(successful), "", 1)]
           ELSE [strategy_used |-> "Direct API Only"],
       breakdown |->
         [successful_extensions |->
            [k \in 1 .. Len(successful) |->
               [id |-> successful[k].extensionId,
                strategy |-> successful[k].strategy]],
          not_found_extensions |->
            [k \in 1 .. Len(notFound) |->
               [id |-> notFound[k].extensionId, error |-> notFound[k].error]],
          failed_extensions |->
            [k \in 1 .. Len(failed) |->
               [id |-> failed[k].extensionId, error |-> failed[k].error]]]]

\* the writes of generateFinalReport settle: the finally block of crawl()
\* awaits close(), with the results to return or the error to rethrow
ReportDone ==
  /\ phase = "report"
  /\ \E ok \in Outcomes("report") :
       IF ok
         THEN /\ phase' = "close"
              /\ reports' = Append(reports, generateFinalReport(results, stats))
         ELSE /\ phase' = rethrown
              /\ reports' = reports
  /\ UNCHANGED <<config, closeCalls, runsLeft, files, stats, i, results, tasks,
                 orphans, pages, checkpoints, returned, batches, netCalls>>

\* close() called by the finally block of crawl() settles: crawl() returns
\* the results, or rethrows the error caught
CloseDone ==
  /\ phase \in {"close", "close_error"}
  /\ closeCalls' = closeCalls + 1
  /\ IF phase = "close"
       THEN /\ phase' = "done"
            /\ returned' = Append(returned, results)
       ELSE /\ phase' = "failed"
            /\ returned' = returned
  /\ UNCHANGED <<config, runsLeft, files, stats, i, results, tasks, orphans,
                 pages, checkpoints, reports, batches, netCalls>>


(***************************************************************************)
(* The per-item orchestrator: downloadExtension().  The operators below    *)
(* are the pieces of its code; each returns the new task, stats and page   *)
(* count as a record [t, s, p].                                            *)
(***************************************************************************)

\* a faulty counter update that counts an exception as a failure as well;
\* PerStrategyAccounting fails with it
updateStrategyStatsTwice(st, strategy, result) ==
  LET ss == st.strategyStats
      cur == IF strategy \in DOMAIN ss
               THEN ss[strategy]
               ELSE [success |-> 0, failed |-> 0, error |-> 0]
      new == IF result = "error"
               THEN [cur EXCEPT !.error = @ + 1, !.failed = @ + 1]
               ELSE [cur EXCEPT ![result] = @ + 1]
  IN  [st EXCEPT !.strategyStats =
         [x \in DOMAIN ss \cup {strategy} |->
            IF x = strategy THEN new ELSE ss[x]]]

\* updateStrategyStats(strategy, result): the entry is created on first use
updateStrategyStats(st, strategy, result) ==
  LET ss == st.strategyStats
      cur == IF strategy \in DOMAIN ss
               THEN ss[strategy]
               ELSE [success |-> 0, failed |-> 0, error |-> 0]
  IN  [st EXCEPT !.strategyStats =
         [x \in DOMAIN ss \cup {strategy} |->
            IF x = strategy THEN [cur EXCEPT ![result] = @ + 1] ELSE ss[x]]]

\* a task whose async function has returned `res`
finished(t, res) ==
  [t EXCEPT !.pc = "done", !.result = res, !.url = 0, !.hop = 0, !.body = 0,
            !.written = 0, !.leg = 0]

\* the first suspension point of a strategy (the switch of tryDownloadStrategy)
tryDownloadStrategy(strategy) ==
  CASE strategy = "crxviewer" -> "newpage"
    [] strategy = "directapi" -> "req"
    [] strategy = "crxextractor" -> "newpage"
    [] strategy = "crxviewer_com" -> "newpage"
    [] OTHER -> "unknown"

\* the k-th strategy of the chain is called
callStrategy(t, k) ==
  [t EXCEPT !.strat = k,
            !.pc = tryDownloadStrategy(Strategies[k]),
            !.url = IF Strategies[k] = "directapi" THEN 1 ELSE 0,
            !.hop = 0, !.body = 0, !.written = 0,
            !.statusCode = 0, !.location = FALSE, !.leg = 0,
            !.calls = @ + 1,
            !.tried = Append(@, <<Strategies[k], "running">>)]

\* a faulty chain that starts at its second strategy; StrategyFunnel fails
\* with it
firstStrategyLate == 1 + 1

\* the index of the first strategy the chain calls
firstStrategy == 1

\* a faulty loop step that passes over a strategy; StrategyOrder fails with it
skipStrategy(k) == k + 2

\* the strategy the loop of downloadExtension calls after strategy k
nextStrategy(k) == k + 1

\* the error text of the record returned after the strategy loop
exhaustionMessage ==
  IF variant = "enhanced" THEN "All download strategies failed"
                          ELSE "Direct API download failed"

\* a faulty exhaustion that throws into the retry logic instead of returning
\* not_found; ExhaustionIsNotFound fails with it
exhaustionRetried(t, st) ==
  IF t.attempt < retryAttempts(variant)
    THEN [t |-> [t EXCEPT !.pc = "backoff", !.exhaustedAt = t.attempt], s |-> st]
    ELSE [t |-> finished([t EXCEPT !.exhaustedAt = t.attempt],
                         [extensionId |-> t.id, status |-> "failed",
                          error |-> exhaustionMessage]),
          s |-> [st EXCEPT !.failed = @ + 1]]

\* a faulty exhaustion whose increment of notFound is lost; NoLostIncrements
\* fails with it
exhaustionUncounted(t, st) ==
  [t |-> finished([t EXCEPT !.exhaustedAt = t.attempt],
                  [extensionId |-> t.id, status |-> "not_found",
                   error |-> exhaustionMessage]),
   s |-> st]

\* the code after the strategy loop: every strategy failed
allStrategiesFailed(t, st) ==
  [t |-> finished([t EXCEPT !.exhaustedAt = t.attempt],
                  [extensionId |-> t.id, status |-> "not_found",
                   error |-> exhaustionMessage]),
   s |-> [st EXCEPT !.notFound = @ + 1]]

\* tryDownloadStrategy settled for the running strategy: outcome is "success"
\* (result.success), "failed" (a value without success) or "error" (it threw)
strategySettled(t, st, outcome, size) ==
  LET name == Strategies[t.strat]
      t1 == [t EXCEPT !.tried[Len(t.tried)] = <<name, outcome>>]
      st1 == updateStrategyStats(st, name, outcome)
  IN  IF outcome = "success"
        THEN [t |-> finished(t1, [extensionId |-> t.id, status |-> "success",
                                  strategy |-> name,
                                  filepath |-> IF name = "crxviewer"
                                                 THEN blobFilepath(t.id)
                                                 ELSE directFilepath(t.id),
                                  size |-> size]),
              s |-> [st1 EXCEPT !.completed = @ + 1]]
        ELSE IF variant = "enhanced"
          THEN [t |-> [t1 EXCEPT !.pc = "gap", !.url = 0, !.hop = 0,
                                 !.body = 0, !.written = 0, !.leg = 0],
                s |-> st1]
          ELSE allStrategiesFailed(t1, st1)

\* a faulty outer catch that retries once more than retryAttempts;
\* RetryCeiling fails with it
outerCatchOneMore(t, st) ==
  IF t.attempt <= retryAttempts(variant)
    THEN [t |-> [t EXCEPT !.pc = "backoff"], s |-> st]
    ELSE [t |-> finished(t, [extensionId |-> t.id, status |-> "failed",
                             error |-> "error.message"]),
          s |-> [st EXCEPT !.failed = @ + 1]]

\* a faulty outer catch that rethrows at the retry ceiling, so that the
\* promise of the item rejects; NoAbort fails with it
outerCatchRethrows(t, st) ==
  IF t.attempt < retryAttempts(variant)
    THEN [t |-> [t EXCEPT !.pc = "backoff"], s |-> st]
    ELSE [t |-> [t EXCEPT !.pc = "rejected"], s |-> [st EXCEPT !.failed = @ + 1]]

\* a faulty outer catch without the attempt ceiling; BoundedAttempts fails
\* with it
outerCatchForever(t, st) == [t |-> [t EXCEPT !.pc = "backoff"], s |-> st]

\* a faulty backoff without the ceiling; BackoffDelay fails with it
retryDelayUncapped(v, attempt) ==
  IF v = "enhanced" THEN 5000 * attempt ELSE 2000 * attempt

\* const retryDelay = Math.min(base * attempt, cap)
retryDelay(v, attempt) ==
  IF v = "enhanced" THEN Min(5000 * attempt, 15000)
                    ELSE Min(2000 * attempt, 8000)

\* the outer catch of downloadExtension; `delay` is the sleep it awaits
outerCatch(t, st) ==
  IF t.attempt < retryAttempts(variant)
    THEN [t |-> [t EXCEPT !.pc = "backoff",
                          !.delay = retryDelay(variant, t.attempt)],
          s |-> st]
    ELSE [t |-> finished(t, [extensionId |-> t.id, status |-> "failed",
                             error |-> "error.message"]),
          s |-> [st EXCEPT !.failed = @ + 1]]

\* a faulty attempt that calls the first strategy without the
\* existing-artifact check; ExistingCheckFirst fails with it
enterAttemptUnchecked(t, st, throws) ==
  IF throws
    THEN [t |-> [t EXCEPT !.pc = "backoff", !.throws = @ + 1, !.tried = << >>,
                          !.checked = FALSE],
          s |-> st]
    ELSE [t |-> [t EXCEPT !.strat = 1, !.pc = "req", !.url = 1, !.calls = @ + 1,
                          !.checked = FALSE,
                          !.tried = <<(<<"directapi", "running">>)>>],
          s |-> st]

\* downloadExtension(extensionId, attempt) up to its first await: the path
\* computation can throw into the outer catch, else fs.stat is awaited
enterAttempt(t, st, throws) ==
  IF throws
    THEN outerCatch([t EXCEPT !.throws = @ + 1, !.tried = << >>,
                              !.checked = FALSE], st)
    ELSE [t |-> [t EXCEPT !.pc = "stat", !.tried = << >>, !.checked = FALSE],
          s |-> st]

\* stats.size > 1000 on the result of fs.stat
hasUsableArtifact(size) == size # NoFile /\ size > SkipThreshold

\* a faulty skip that counts the identifier as downloaded as well;
\* SkippedFrame fails with it
afterStatCounted(t, st, size) ==
  IF hasUsableArtifact(size)
    THEN [t |-> finished([t EXCEPT !.checked = TRUE],
                         [extensionId |-> t.id, status |-> "skipped",
                          filepath |-> expectedFile(t.id), size |-> size]),
          s |-> [st EXCEPT !.skipped = @ + 1, !.completed = @ + 1]]
    ELSE [t |-> callStrategy([t EXCEPT !.checked = TRUE], firstStrategy),
          s |-> st]

\* fs.stat settled with `size` (NoFile: it rejected)
afterStat(t, st, size) ==
  IF hasUsableArtifact(size)
    THEN [t |-> finished([t EXCEPT !.checked = TRUE],
                         [extensionId |-> t.id, status |-> "skipped",
                          filepath |-> expectedFile(t.id), size |-> size]),
          s |-> [st EXCEPT !.skipped = @ + 1]]
    ELSE [t |-> callStrategy([t EXCEPT !.checked = TRUE], firstStrategy),
          s |-> st]

\* the exceptions the environment may raise in this behaviour
Throws == IF "path" \in faults THEN BOOLEAN ELSE {FALSE}

\* the tasks, stats and page count after task j took the step `r`
Apply(j, r, dp) ==
  /\ tasks' = [tasks EXCEPT ![j] = r.t]
  /\ stats' = r.s
  /\ pages' = pages + dp
  /\ netCalls' = netCalls + (r.t.calls - tasks[j].calls)

\* the staggered sleep of task j ends (the timers of one batch were set at
\* the same time, so none fires before one with a shorter delay, nor before
\* one set earlier with the same delay) and downloadExtension(extensionId)
\* is entered with attempt 1
Wake(j) ==
  /\ tasks[j].pc = "sleep"
  /\ \A k \in Slots :
       tasks[k].pc = "sleep" =>
         \/ tasks[k].delay > tasks[j].delay
         \/ (tasks[k].delay = tasks[j].delay /\ k >= j)
  /\ \E throws \in Throws :
       Apply(j, enterAttempt([tasks[j] EXCEPT !.attempt = 1], stats, throws), 0)
  /\ UNCHANGED <<config, closeCalls, runsLeft, files, phase, i, results, orphans,
                 checkpoints, returned, reports, batches>>

\* the retry sleep ends: downloadExtension(extensionId, attempt + 1)
Backoff(j) ==
  /\ tasks[j].pc = "backoff"
  /\ \E throws \in Throws :
       Apply(j, enterAttempt([tasks[j] EXCEPT !.attempt = @ + 1], stats, throws), 0)
  /\ UNCHANGED <<config, closeCalls, runsLeft, files, phase, i, results, orphans,
                 checkpoints, returned, reports, batches>>

\* fs.stat(expectedFile) settles
StatDone(j) ==
  /\ tasks[j].pc = "stat"
  /\ Apply(j, afterStat(tasks[j], stats, files[tasks[j].id]), 0)
  /\ UNCHANGED <<config, closeCalls, runsLeft, files, phase, i, results, orphans,
                 checkpoints, returned, reports, batches>>

\* sleep(2000) after a strategy that did not succeed ends: the loop calls
\* the next strategy, or falls out of the loop
Gap(j) ==
  /\ tasks[j].pc = "gap"
  /\ Apply(j,
           IF nextStrategy(tasks[j].strat) \in 1 .. Len(Strategies)
             THEN [t |-> callStrategy(tasks[j], nextStrategy(tasks[j].strat)),
                   s |-> stats]
             ELSE allStrategiesFailed(tasks[j], stats),
           0)
  /\ UNCHANGED <<config, closeCalls, runsLeft, files, phase, i, results, orphans,
                 checkpoints, returned, reports, batches>>

(***************************************************************************)
(* downloadViaDirectAPI() and downloadFileDirectly().                      *)
(***************************************************************************)

\* a faulty strategy whose finally block is not reached from
\* downloadFileDirectly; NoPageLeak fails with it
heldPagesForgotten(t) == 0

\* the page a browser strategy holds open while its download runs
heldPages(t) == IF Strategies[t.strat] = "directapi" THEN 0 ELSE 1

\* a faulty settlement in which a rejected download escapes the strategy and
\* reaches the outer catch; StrategyFailureContained fails with it
requestSettledEscapes(t, st, ok, size) ==
  IF ok
    THEN strategySettled(t, st, "success", size)
    ELSE outerCatch([t EXCEPT !.throws = @ + 1], st)

\* the promise of the outermost downloadFileDirectly call of task t settles.
\* downloadViaDirectAPI catches a rejection and tries its next endpoint; the
\* browser strategies let it propagate through their finally block
requestSettled(t, st, ok, size) ==
  IF Strategies[t.strat] = "directapi"
    THEN IF ok
           THEN strategySettled(t, st, "success", size)
           ELSE IF t.url < NumApiUrls(variant)
                  THEN [t |-> [t EXCEPT !.url = @ + 1, !.pc = "req", !.hop = 0,
                                        !.body = 0, !.written = 0,
                                        !.statusCode = 0, !.location = FALSE,
                                        !.leg = 0],
                        s |-> st]
                  ELSE strategySettled(t, st, "failed", 0)
    ELSE strategySettled(t, st, IF ok THEN "success" ELSE "error", size)

\* a faulty size check that accepts a file one byte below the threshold;
\* SuccessSizeAtLeastThreshold fails with it
tooSmallBelow(size) == size < MinDownloadSize - 1

\* the size check of the 'finish' handler: stats.size < 1000 rejects
tooSmall(size) == size < MinDownloadSize

\* what a write at offset `upto` leaves as the length of a file of length `len`
writtenFile(len, upto) == Max(len, upto)

\* the answers the remote may give among `kinds`, and its 200 responses
Answers(kinds) ==
  {[kind |-> k, body |-> 0] : k \in remote.kinds \cap kinds}
    \cup {[kind |-> "ok", body |-> b] : b \in remote.bodies}

\* response.statusCode of an answer of the remote
statusOf(kind) ==
  CASE kind = "ok" -> 200
    [] kind = "nocontent" -> 204
    [] kind = "redirect" -> 302
    [] kind = "loop" -> 302
    [] kind = "notmodified" -> 304
    [] OTHER -> 404

\* whether an answer of the remote carries a Location header
hasLocation(kind) == kind \in {"redirect", "loop"}

\* downloadFileDirectly(response.headers.location, extensionId) is called
\* from the response callback.  hop counts the redirects followed up to
\* MaxHops; the Location of a "loop" answer names the URL that redirected to
\* the one just requested, and leg tells which of the two is requested now
followed(t, kind) ==
  [t EXCEPT !.hop = Min(@ + 1, MaxHops),
            !.leg = IF kind = "loop" THEN 1 - @ ELSE @]

\* the response callback of downloadFileDirectly: a 3xx response with a
\* Location header is followed, a status other than 200 rejects, and a 200
\* response is piped into the file
onResponse(statusCode, location) ==
  IF statusCode >= 300 /\ statusCode < 400 /\ location
    THEN "redirect"
    ELSE IF statusCode # 200 THEN "reject" ELSE "pipe"

\* task t holding the status line and headers of the response it received
received(t, kind) ==
  [t EXCEPT !.statusCode = statusOf(kind), !.location = hasLocation(kind)]

\* request.on('error') fires for the request of task j, or its response
\* callback runs
Response(j) ==
  /\ tasks[j].pc = "req"
  /\ \E r \in Answers({"error", "status", "redirect", "loop", "nocontent",
                        "notmodified"}) :
       IF r.kind = "error"
         THEN /\ Apply(j, requestSettled(tasks[j], stats, FALSE, 0),
                       0 - heldPages(tasks[j]))
              /\ files' = files
         ELSE LET t == received(tasks[j], r.kind)
                  todo == onResponse(t.statusCode, t.location)
              IN  /\ r.kind = "redirect" => t.hop < MaxHops
                  /\ CASE todo = "redirect" ->
                            /\ tasks' = [tasks EXCEPT ![j] = followed(t, r.kind)]
                            /\ UNCHANGED <<stats, pages, netCalls, files>>
                       [] todo = "pipe" ->
                            /\ tasks' = [tasks EXCEPT ![j] =
                                           [t EXCEPT !.pc = "pipe", !.body = r.body,
                                                     !.written = 0]]
                            /\ files' = [files EXCEPT ![t.id] = 0]
                            /\ UNCHANGED <<stats, pages, netCalls>>
                       [] OTHER ->
                            /\ Apply(j, requestSettled(t, stats, FALSE, 0),
                                     0 - heldPages(t))
                            /\ files' = files
  /\ UNCHANGED <<config, closeCalls, runsLeft, phase, i, results, orphans, checkpoints,
                 returned, reports, batches>>

\* response.pipe(fileStream) moves the next bytes of the body into the file
Chunk(j) ==
  /\ tasks[j].pc = "pipe"
  /\ tasks[j].written < tasks[j].body
  /\ LET upto == Min(tasks[j].written + ChunkSize, tasks[j].body)
     IN  /\ tasks' = [tasks EXCEPT ![j].written = upto]
         /\ files' = [files EXCEPT ![tasks[j].id] = writtenFile(@, upto)]
  /\ UNCHANGED <<config, closeCalls, runsLeft, stats, phase, i, results, orphans, pages,
                 checkpoints, returned, reports, batches, netCalls>>

\* the 'finish' handler of the file stream: fs.stat, then the size check
Finish(j) ==
  /\ tasks[j].pc = "pipe"
  /\ tasks[j].written = tasks[j].body
  /\ LET size == files[tasks[j].id]
     IN  Apply(j, requestSettled(tasks[j], stats, ~tooSmall(size), size),
               0 - heldPages(tasks[j]))
  /\ UNCHANGED <<config, closeCalls, runsLeft, files, phase, i, results, orphans,
                 checkpoints, returned, reports, batches>>

\* the timeout callback of the request that is in flight: request.destroy()
\* and reject; what the stream has written stays on disk
Timeout(j) ==
  /\ tasks[j].pc \in {"req", "pipe"}
  /\ "timeout" \in remote.kinds
  /\ Apply(j, requestSettled(tasks[j], stats, FALSE, 0), 0 - heldPages(tasks[j]))
  /\ UNCHANGED <<config, closeCalls, runsLeft, files, phase, i, results, orphans,
                 checkpoints, returned, reports, batches>>

\* the timeout callback of a request that was answered with a redirect: its
\* response is never consumed and its timer never cleared, so it can fire
\* while the request to the redirect target is in flight.  The outermost
\* promise is rejected; the request in flight goes on with nobody awaiting it
RedirectedTimeout(j) ==
  /\ tasks[j].pc \in {"req", "pipe"}
  /\ tasks[j].hop >= 1
  /\ "timeout" \in remote.kinds
  /\ Cardinality(orphans) < MaxOrphans
  /\ orphans' = orphans \cup {[id |-> tasks[j].id, pc |-> tasks[j].pc,
                               body |-> tasks[j].body,
                               written |-> tasks[j].written]}
  /\ Apply(j, requestSettled(tasks[j], stats, FALSE, 0), 0 - heldPages(tasks[j]))
  /\ UNCHANGED <<config, closeCalls, runsLeft, files, phase, i, results, checkpoints,
                 returned, reports, batches>>

\* an abandoned request is answered, or times out
OrphanResponse(o) ==
  /\ o \in orphans
  /\ o.pc = "req"
  /\ \E r \in Answers({"error", "status", "timeout"}) :
       IF r.kind = "ok"
         THEN /\ orphans' = (orphans \ {o}) \cup
                              {[o EXCEPT !.pc = "pipe", !.body = r.body, !.written = 0]}
              /\ files' = [files EXCEPT ![o.id] = 0]
         ELSE /\ orphans' = orphans \ {o}
              /\ files' = files
  /\ UNCHANGED <<config, closeCalls, runsLeft, stats, phase, i, results, tasks, pages,
                 checkpoints, returned, reports, batches, netCalls>>

\* an abandoned request pipes the next bytes of its body into the file
OrphanChunk(o) ==
  /\ o \in orphans
  /\ o.pc = "pipe"
  /\ o.written < o.body
  /\ LET upto == Min(o.written + ChunkSize, o.body)
     IN  /\ orphans' = (orphans \ {o}) \cup {[o EXCEPT !.written = upto]}
         /\ files' = [files EXCEPT ![o.id] = writtenFile(@, upto)]
  /\ UNCHANGED <<config, closeCalls, runsLeft, stats, phase, i, results, tasks, pages,
                 checkpoints, returned, reports, batches, netCalls>>

\* an abandoned request finishes or stalls: its resolve and reject are no-ops
OrphanEnd(o) ==
  /\ o \in orphans
  /\ o.pc = "pipe"
  /\ o.written = o.body \/ "timeout" \in remote.kinds
  /\ orphans' = orphans \ {o}
  /\ UNCHANGED <<config, closeCalls, runsLeft, files, stats, phase, i, results, tasks,
                 pages, checkpoints, returned, reports, batches, netCalls>>

(***************************************************************************)
(* The browser strategies of crx-crawler.js: downloadViaCRXViewer,         *)
(* downloadViaCRXExtractor, downloadViaCRXViewerCom, downloadFileFromBlob. *)
(***************************************************************************)

\* the size check of downloadFileFromBlob: stats.size < 1000 throws
blobTooSmall(size) == size < MinBlobSize

\* this.browser.newPage() of a browser strategy settles; it is called before
\* the try block, so a rejection leaves no page to close
NewPageDone(j) ==
  /\ tasks[j].pc = "newpage"
  /\ \E ok \in {TRUE} \cup {k \in {FALSE} : "throw" \in remote.kinds} :
       IF ok
         THEN Apply(j, [t |-> [tasks[j] EXCEPT !.pc = "page"], s |-> stats], 1)
         ELSE Apply(j, strategySettled(tasks[j], stats, "error", 0), 0)
  /\ UNCHANGED <<config, closeCalls, runsLeft, files, phase, i, results, orphans,
                 checkpoints, returned, reports, batches>>

\* the page interaction of a browser strategy ends: it threw (the finally
\* block closes the page), it found no download link, or it found one and
\* the download is started with the page still open
PageDone(j) ==
  /\ tasks[j].pc = "page"
  /\ \E k \in remote.kinds \cap PageKinds :
       CASE k = "throw" ->
              Apply(j, strategySettled(tasks[j], stats, "error", 0), -1)
         [] k = "nolink" ->
              Apply(j, strategySettled(tasks[j], stats, "failed", 0), -1)
         [] OTHER ->
              Apply(j, [t |-> [tasks[j] EXCEPT !.pc =
                                 IF Strategies[tasks[j].strat] = "crxviewer"
                                   THEN "blobnew" ELSE "req"],
                        s |-> stats], 0)
  /\ UNCHANGED <<config, closeCalls, runsLeft, files, phase, i, results, orphans,
                 checkpoints, returned, reports, batches>>

\* this.browser.newPage() of downloadFileFromBlob settles
BlobNewPageDone(j) ==
  /\ tasks[j].pc = "blobnew"
  /\ \E ok \in {TRUE} \cup {k \in {FALSE} : "throw" \in remote.kinds} :
       IF ok
         THEN Apply(j, [t |-> [tasks[j] EXCEPT !.pc = "blobgoto"], s |-> stats], 1)
         ELSE Apply(j, strategySettled(tasks[j], stats, "error", 0), -1)
  /\ UNCHANGED <<config, closeCalls, runsLeft, files, phase, i, results, orphans,
                 checkpoints, returned, reports, batches>>

\* downloadPage.goto(blobUrl) settles: it threw or the response is not ok
\* (both pages are closed), or the body is buffered and fs.writeFile awaited
BlobGotoDone(j) ==
  /\ tasks[j].pc = "blobgoto"
  /\ \E r \in Answers({"throw"}) :
       IF r.kind = "ok"
         THEN Apply(j, [t |-> [tasks[j] EXCEPT !.pc = "blobwrite", !.body = r.body],
                        s |-> stats], 0)
         ELSE Apply(j, strategySettled(tasks[j], stats, "error", 0), -2)
  /\ files' = files
  /\ UNCHANGED <<config, closeCalls, runsLeft, phase, i, results, orphans, checkpoints,
                 returned, reports, batches>>

\* fs.writeFile(filepath, buffer) settles; fs.stat is awaited
BlobWriteDone(j) ==
  /\ tasks[j].pc = "blobwrite"
  /\ files' = [files EXCEPT ![tasks[j].id] = tasks[j].body]
  /\ Apply(j, [t |-> [tasks[j] EXCEPT !.pc = "blobstat"], s |-> stats], 0)
  /\ UNCHANGED <<config, closeCalls, runsLeft, phase, i, results, orphans, checkpoints,
                 returned, reports, batches>>

\* fs.stat of downloadFileFromBlob settles: the size check, then both pages
\* are closed by the finally blocks
BlobStatDone(j) ==
  /\ tasks[j].pc = "blobstat"
  /\ LET size == files[tasks[j].id]
     IN  Apply(j, strategySettled(tasks[j], stats,
                    IF blobTooSmall(size) THEN "error" ELSE "success", size), -2)
  /\ UNCHANGED <<config, closeCalls, runsLeft, files, phase, i, results, orphans,
                 checkpoints, returned, reports, batches>>

(***************************************************************************)
(* Specifications.                                                         *)
(***************************************************************************)

\* the identifiers of a list
Range(f) == {f[k] : k \in DOMAIN f}

\* the crawler as its constructor leaves it and the process before crawl()
\* is called; `seeds` are the artifact sizes found on disk
Fresh(seeds, runs) ==
  /\ runsLeft = runs
  /\ files \in [Range(extensionIds) -> seeds]
  /\ stats = NewStats
  /\ phase = "idle"
  /\ i = 0
  /\ results = << >>
  /\ tasks = [j \in Slots |-> Idle]
  /\ orphans = {}
  /\ pages = 0
  /\ checkpoints = << >>
  /\ returned = << >>
  /\ reports = << >>
  /\ batches = << >>
  /\ netCalls = 0
  /\ closeCalls = 0

\* a crawler whose crawl() is called, as the tests call it, with one of
\* `lists`
InitLists(vs, cs, ks, lists, rems, fs, seeds, runs) ==
  /\ variant \in vs
  /\ concurrency \in cs
  /\ checkpointInterval \in ks
  /\ extensionIds \in lists
  /\ remote \in rems
  /\ faults \in fs
  /\ source = << >>
  /\ Fresh(seeds, runs)

\* the same, with lists of distinct identifiers of the lengths `lens`
InitWith(vs, cs, ks, lens, rems, fs, seeds, runs) ==
  InitLists(vs, cs, ks, {SubSeq(Identifiers, 1, n) : n \in lens}, rems, fs,
            seeds, runs)

\* the lists of at most n entries over the identifiers `ids`: what
\* loadExtensionIds returns for a source that may repeat an identifier
ListsOver(ids, n) == UNION {[1 .. k -> ids] : k \in 0 .. n}

\* the environments of the specifications
PlainRemote ==
  [kinds |-> {"error", "status", "timeout"} \cup PageKinds,
   bodies |-> {999, 1000}]

RetryRemote ==
  [kinds |-> {"status", "throw", "nolink", "link"}, bodies |-> {999, 3000}]

RedirectRemote ==
  [kinds |-> {"status", "timeout", "redirect"}, bodies |-> {999, 3000}]

SchedRemote == [kinds |-> {"status", "nolink"}, bodies |-> {3000}]

RerunRemote == [kinds |-> {"status"}, bodies |-> BodySizes]

Scheduler ==
  Crawl \/ MkdirDone \/ InitializeDone \/ Join \/ CheckpointDone \/ DelayDone
    \/ ReportDone \/ CloseDone

Download ==
  \E j \in Slots :
    Wake(j) \/ StatDone(j) \/ Response(j) \/ Chunk(j) \/ Finish(j)

Chain == \E j \in Slots : Gap(j)

Retry == \E j \in Slots : Backoff(j)

Stalls == \E j \in Slots : Timeout(j)

Abandoned ==
  \/ \E j \in Slots : RedirectedTimeout(j)
  \/ \E o \in orphans : OrphanResponse(o) \/ OrphanChunk(o) \/ OrphanEnd(o)

Pages == \E j \in Slots : NewPageDone(j) \/ PageDone(j)

Blobs ==
  \E j \in Slots :
    BlobNewPageDone(j) \/ BlobGotoDone(j) \/ BlobWriteDone(j)
      \/ BlobStatDone(j)

Browser == Pages \/ Blobs

\* crx-crawler.js against remotes that fail, stall or answer, without
\* redirects and without local failures
Init ==
  InitWith({"enhanced"}, Concurrencies, {2}, 0 .. MaxIds, {PlainRemote},
           {{}}, {NoFile}, 1)

Next == Scheduler \/ Download \/ Chain \/ Stalls \/ Browser

Spec == Init /\ [][Next]_vars

\* both variants with exceptions reaching the outer catch of downloadExtension
InitRetry ==
  InitWith(Variants, Concurrencies, {2}, 0 .. MaxIds, {RetryRemote},
           {{"path"}}, {NoFile, 3000}, 1)

NextRetry == Scheduler \/ Download \/ Chain \/ Retry \/ Browser

SpecRetry == InitRetry /\ [][NextRetry]_vars

\* the direct variant against remotes that redirect and stall
InitDirect ==
  InitWith({"direct"}, {1}, {2}, 0 .. MaxIds, {RedirectRemote}, {{}},
           {NoFile}, 1)

NextDirect == Scheduler \/ Download \/ Stalls \/ Abandoned

SpecDirect == InitDirect /\ [][NextDirect]_vars

\* both variants over longer identifier lists: the batch scheduler
InitSched ==
  \/ InitWith(Variants, Concurrencies, Intervals, 0 .. MaxSchedIds,
              {SchedRemote}, {{}}, {NoFile, 3000}, 1)
  \/ InitWith({"direct"}, Concurrencies, Intervals, 0 .. MaxSchedIds,
              {SchedRemote}, {{"path", "checkpoint"}}, {NoFile}, 1)

NextSched == Scheduler \/ Download \/ Chain \/ Retry \/ Pages

SpecSched == InitSched /\ [][NextSched]_vars

\* the direct variant run MaxRuns times on one crawler instance
InitRerun ==
  InitWith({"direct"}, Concurrencies, {2}, 0 .. MaxIds, {RerunRemote}, {{}},
           {NoFile}, MaxRuns)

NextRerun == Scheduler \/ Download

SpecRerun == InitRerun /\ [][NextRerun]_vars

\* both crawlers against remotes whose requests stall, whose pages throw and
\* whose endpoints answer with an error status, with local exceptions in
\* downloadExtension
FailRemote == [kinds |-> {"timeout", "throw", "link"}, bodies |-> {3000}]

FailDirectRemote ==
  [kinds |-> {"error", "status", "timeout"}, bodies |-> {3000}]

InitFail ==
  \/ InitWith({"enhanced"}, Concurrencies, {2}, 0 .. MaxIds, {FailRemote},
              {{"path"}}, {NoFile}, 1)
  \/ InitWith({"direct"}, Concurrencies, {2}, 0 .. MaxIds, {FailDirectRemote},
              {{"path"}}, {NoFile}, 1)

NextFail == Scheduler \/ Download \/ Chain \/ Retry \/ Stalls \/ Browser

SpecFail == InitFail /\ [][NextFail]_vars

\* the direct-API crawler on identifier lists that may repeat an identifier
InitDup ==
  InitLists({"direct"}, Concurrencies, {2}, ListsOver({"a", "b"}, MaxDupIds),
            {RerunRemote}, {{}}, {NoFile}, 1)

NextDup == Scheduler \/ Download

SpecDup == InitDup /\ [][NextDup]_vars

\* both crawlers' downloadFileDirectly against endpoints that answer every
\* request at once, with an error status, a 200 response, or a redirect
\* whose Location leads back to the URL that redirected; every answer
\* closes its connection, so no timer of an answered request is left
LoopRemote == [kinds |-> {"status", "loop"}, bodies |-> {3000}]

InitLoop ==
  InitWith({"direct"}, Concurrencies, {2}, 0 .. MaxIds, {LoopRemote}, {{}},
           {NoFile}, 1)

NextLoop == Scheduler \/ Download

SpecLoop == InitLoop /\ [][NextLoop]_vars

\* the event loop runs every callback that is ready, and the remote answers
\* every request
FairLoop ==
  /\ SpecLoop
  /\ WF_vars(Scheduler)
  /\ \A j \in Slots :
       WF_vars(Wake(j) \/ StatDone(j) \/ Response(j) \/ Chunk(j) \/ Finish(j))

(***************************************************************************)
(* The loader and main().  An entry of the identifier file is the sequence *)
(* of its characters, and an admitted entry is the identifier itself.      *)
(***************************************************************************)

\* the characters a..p of the pattern /^[a-p]{32}$/
IdAlphabet ==
  {"a", "b", "c", "d", "e", "f", "g", "h", "i", "j", "k", "l", "m", "n", "o",
   "p"}

\* the characters the direct-API loader strips from the ends of an entry
Quotes == {"\"", "'"}

\* the entry made of n characters c
repeated(c, n) == [k \in 1 .. n |-> c]

\* candidate lines of the identifier file: two well-formed identifiers, one
\* a character short, one a character long, one with a character outside
\* a..p, and a well-formed identifier in double quotes
Candidates ==
  {repeated("a", IdLength), repeated("p", IdLength),
   repeated("a", IdLength - 1), repeated("a", IdLength + 1),
   Append(repeated("a", IdLength - 1), "q"),
   <<"\"">> \o repeated("a", IdLength) \o <<"\"">>}

\* a faulty pattern without the end anchor; LoaderAdmission fails with it
matchesPrefix(e) ==
  /\ Len(e) >= IdLength
  /\ \A k \in 1 .. IdLength : e[k] \in IdAlphabet

\* /^[a-p]{32}$/.test(id)
matches(e) ==
  /\ Len(e) = IdLength
  /\ \A k \in 1 .. Len(e) : e[k] \in IdAlphabet

\* id.replace(/^["']|["']$/g, ''): one quote off each end
stripQuotes(e) ==
  LET a == IF Len(e) > 0 /\ e[1] \in Quotes THEN Tail(e) ELSE e
  IN  IF Len(a) > 0 /\ a[Len(a)] \in Quotes
        THEN SubSeq(a, 1, Len(a) - 1)
        ELSE a

\* the entries the pattern is applied to: the direct-API loader cleans them
cleaned(v, src) ==
  IF v = "direct" THEN [k \in DOMAIN src |-> stripQuotes(src[k])] ELSE src

\* ids.filter(id => /^[a-p]{32}$/.test(id))
validIds(v, src) == SelectSeq(cleaned(v, src), matches)

\* ids.filter(id => !/^[a-p]{32}$/.test(id))
invalidIds(v, src) == SelectSeq(cleaned(v, src), LAMBDA e : ~matches(e))

\* the direct-API loader throws when no entry is valid; crx-crawler.js
\* returns the empty list
loaderThrows(v, src) == v = "direct" /\ Len(validIds(v, src)) = 0

\* what loadExtensionIds returns when it returns
loadExtensionIds(v, src) == validIds(v, src)

\* loadExtensionIds settles in main(): a rejection reaches the catch of
\* main(), which calls process.exit(1); else crawl(extensionIds) is called
\* and awaits fs.mkdir
LoadDone ==
  /\ phase = "idle"
  /\ runsLeft > 0
  /\ runsLeft' = runsLeft - 1
  /\ phase' = IF loaderThrows(variant, source) THEN "exit1" ELSE "mkdir"
  /\ closeCalls' = 0
  /\ UNCHANGED <<config, files, stats, i, results, tasks, orphans, pages,
                 checkpoints, returned, reports, batches, netCalls>>

\* crawl() settles in main(): main() returns and the process ends with
\* status 0, or the catch of main() calls process.exit(1)
MainDone ==
  /\ phase \in {"done", "failed"}
  /\ phase' = IF phase = "done" THEN "exit0" ELSE "exit1"
  /\ UNCHANGED <<config, closeCalls, runsLeft, files, stats, i, results, tasks, orphans,
                 pages, checkpoints, returned, reports, batches, netCalls>>

\* main() of both crawlers on identifier files of well-formed and malformed
\* entries; the browser may fail to launch
MainRemote == [kinds |-> {"status", "nolink"}, bodies |-> {3000}]

InitMain ==
  /\ variant \in Variants
  /\ concurrency \in Concurrencies
  /\ checkpointInterval = 2
  /\ source \in ListsOver(Candidates, MaxSource)
  /\ extensionIds = loadExtensionIds(variant, source)
  /\ remote = MainRemote
  /\ faults \in {{}, {"launch"}}
  /\ Fresh({NoFile}, 1)

NextMain ==
  \/ LoadDone
  \/ MainDone
  \/ MkdirDone \/ InitializeDone \/ Join \/ CheckpointDone \/ DelayDone
  \/ ReportDone \/ CloseDone
  \/ Download
  \/ Chain
  \/ Pages

SpecMain == InitMain /\ [][NextMain]_vars

\* a faulty exit that leaves the async functions of the process running;
\* Cancellation fails with it
keepRunning(ts) == ts

\* process.exit(0): every async function of the process is gone
exitProcess(ts) == [j \in DOMAIN ts |-> Idle]

\* the SIGINT handler runs: it logs and calls process.exit(0); whatever was
\* in flight is abandoned and what was written stays as it is
Interrupt ==
  /\ phase \notin {"interrupted", "exit0", "exit1"}
  /\ phase' = "interrupted"
  /\ tasks' = exitProcess(tasks)
  /\ orphans' = {}
  /\ UNCHANGED <<config, closeCalls, runsLeft, files, stats, i, results, pages,
                 checkpoints, returned, reports, batches, netCalls>>

\* both crawlers, interrupted at any moment of a run
InitInterrupt ==
  InitWith(Variants, Concurrencies, {2}, 0 .. MaxIds, {MainRemote}, {{}},
           {NoFile}, 1)

NextInterrupt == Scheduler \/ Download \/ Chain \/ Pages \/ Interrupt

SpecInterrupt == InitInterrupt /\ [][NextInterrupt]_vars

\* the direct-API crawler run again on the same directory after a run whose
\* transfers could stall part-way
PartialRemote == [kinds |-> {"timeout"}, bodies |-> {3000}]

InitPartial ==
  InitWith({"direct"}, Concurrencies, {2}, 0 .. MaxIds, {PartialRemote}, {{}},
           {NoFile}, MaxRuns)

NextPartial == Scheduler \/ Download \/ Stalls

SpecPartial == InitPartial /\ [][NextPartial]_vars

\* SpecFail with every timer, request and file operation settling at last
FairFail == SpecFail /\ WF_vars(NextFail)

\* the direct variant against remotes that answer with statuses 200, 204,
\* 302 with a Location header, 304 without one, and 404
StatusRemote ==
  [kinds |-> {"status", "redirect", "nocontent", "notmodified"},
   bodies |-> {999, 3000}]

InitStatus ==
  InitWith({"direct"}, Concurrencies, {2}, 0 .. MaxIds, {StatusRemote}, {{}},
           {NoFile}, 1)

NextStatus == Scheduler \/ Download

SpecStatus == InitStatus /\ [][NextStatus]_vars

\* crx-crawler.js over three identifiers against remotes where any strategy
\* may succeed: the final report
MaxReportIds == 3

ReportRemote == [kinds |-> {"status", "nolink", "link"}, bodies |-> {3000}]

InitReport ==
  InitWith({"enhanced"}, {2}, {2}, 0 .. MaxReportIds, {ReportRemote}, {{}},
           {NoFile}, 1)

NextReport == Scheduler \/ Download \/ Chain \/ Browser

SpecReport == InitReport /\ [][NextReport]_vars

\* crx-crawler.js run MaxRuns times against remotes where any strategy may
\* succeed
InitPaths ==
  InitWith({"enhanced"}, Concurrencies, {2}, 0 .. MaxIds, {ReportRemote}, {{}},
           {NoFile}, MaxRuns)

NextPaths == Scheduler \/ Download \/ Chain \/ Browser

SpecPaths == InitPaths /\ [][NextPaths]_vars

\* both crawlers where the directory, the browser, a checkpoint or the
\* report may fail
InitLife ==
  InitWith(Variants, Concurrencies, {2}, 0 .. MaxIds, {SchedRemote},
           {{"mkdir", "launch", "checkpoint", "report"}}, {NoFile}, MaxRuns)

NextLife == Scheduler \/ Download \/ Chain \/ Pages

SpecLife == InitLife /\ [][NextLife]_vars

\* both crawlers over three identifiers where a checkpoint write may fail
InitAbort ==
  InitWith(Variants, Concurrencies, {2}, 0 .. MaxReportIds, {SchedRemote},
           {{"checkpoint"}}, {NoFile}, 1)

NextAbort == Scheduler \/ Download \/ Chain \/ Pages

SpecAbort == InitAbort /\ [][NextAbort]_vars

(***************************************************************************)
(* Properties.                                                             *)
(***************************************************************************)

Statuses == {"success", "not_found", "failed", "skipped"}

\* a task that is inside a strategy call
attempting(t) ==
  t.pc \in {"newpage", "page", "blobnew", "blobgoto", "blobwrite", "blobstat",
            "req", "pipe"}

\* the acquisition work in flight: strategy calls that have not returned and
\* download requests that still run after their promise was settled
InFlight ==
  Cardinality({j \in Slots : attempting(tasks[j])}) + Cardinality(orphans)

\* the ItemResult records created so far by the current run
Produced ==
  {results[p] : p \in 1 .. Len(results)}
    \cup {tasks[j].result : j \in {k \in Slots : tasks[k].pc = "done"}}

\* the outcomes the strategies tried by task t have reported
outcomes(t) == {t.tried[k][2] : k \in 1 .. Len(t.tried)}

\* C1: at no instant are more than `concurrency` strategy attempts or
\* download requests in flight, also when a request times out or is
\* redirected inside downloadFileDirectly.
ConcurrencyBound == InFlight <= concurrency

\* C2: the results list has one record per input identifier, record p is
\* the record of extensionIds[p] and carries one of the four statuses; when
\* processBatch returns the list has exactly N records, and crawl() returns it.
OneResultPerIdentifier ==
  /\ Len(results) <= N
  /\ \A p \in 1 .. Len(results) :
       /\ results[p].extensionId = extensionIds[p]
       /\ results[p].status \in Statuses
  /\ \A j \in Slots :
       tasks[j].pc = "done" =>
         /\ tasks[j].result.extensionId = extensionIds[i + j + 1]
         /\ Len(results) = i
  /\ phase \in {"report", "close", "done"} => Len(results) = N
  /\ phase = "done" => returned[Len(returned)] = results

\* a run over three or more identifiers returned, with three statuses in it
OneResultPerIdentifierWitness ==
  /\ phase = "done"
  /\ N >= 3
  /\ concurrency = 2
  /\ Cardinality({results[p].status : p \in 1 .. Len(results)}) >= 3

\* C3 (state part): a strategy is only ever called in an attempt whose
\* existing-artifact check has been made, and a skipped result comes from a
\* file above the threshold with no strategy call made by that
\* downloadExtension invocation.
CheckedFirst ==
  \A j \in Slots :
    /\ (Len(tasks[j].tried) > 0 \/ attempting(tasks[j])) => tasks[j].checked
    /\ (tasks[j].pc = "done" /\ tasks[j].result.status = "skipped") =>
         /\ tasks[j].calls = 0
         /\ tasks[j].checked
         /\ tasks[j].result.size > SkipThreshold

\* C3 (step part): when fs.stat settles on a usable artifact the task
\* returns skipped without calling a strategy.
SkipStep ==
  \A j \in Slots :
    (tasks[j].pc = "stat" /\ tasks'[j] # tasks[j]
       /\ hasUsableArtifact(files[tasks[j].id])) =>
      /\ tasks'[j].pc = "done"
      /\ tasks'[j].result.status = "skipped"
      /\ tasks'[j].calls = 0
      /\ netCalls' = netCalls

\* C3: in every attempt of downloadExtension the existing-artifact check
\* precedes any strategy call; if it is true the result is skipped and no
\* strategy call is made for the identifier by that invocation.
ExistingCheckFirst == [](CheckedFirst) /\ [][SkipStep]_vars

\* a second attempt found a usable artifact and returned skipped
ExistingCheckFirstWitness ==
  \E j \in Slots :
    /\ tasks[j].pc = "done"
    /\ tasks[j].result.status = "skipped"
    /\ tasks[j].attempt = 2

\* C4: when every strategy of the chain reports failure (a value without
\* success, or an exception) on the first attempt, the result is not_found,
\* never failed, and no second attempt is started.
ExhaustionIsNotFound ==
  \A j \in Slots :
    /\ tasks[j].exhaustedAt = 1 =>
         /\ tasks[j].pc = "done"
         /\ tasks[j].attempt = 1
         /\ tasks[j].result.status = "not_found"
    /\ (/\ tasks[j].attempt = 1
        /\ Len(tasks[j].tried) = Len(Strategies)
        /\ outcomes(tasks[j]) \subseteq {"failed", "error"}) =>
         /\ tasks[j].pc \in {"gap", "done"}
         /\ tasks[j].pc = "done" => tasks[j].result.status = "not_found"

\* the four strategies failed on the first attempt, some by value and some
\* by exception, and the task returned
ExhaustionIsNotFoundWitness ==
  \E j \in Slots :
    /\ tasks[j].pc = "done"
    /\ tasks[j].exhaustedAt = 1
    /\ Len(tasks[j].tried) = 4
    /\ outcomes(tasks[j]) = {"failed", "error"}

\* C5: every success record carries a size of at least the minimum
\* threshold, whichever strategy produced it; a transfer that left a smaller
\* file is not reported as success.
SuccessSizeAtLeastThreshold ==
  /\ \A r \in Produced : r.status = "success" => r.size >= MinDownloadSize
  /\ \A j \in Slots :
       "success" \in outcomes(tasks[j]) =>
         /\ tasks[j].pc = "done"
         /\ tasks[j].result.status = "success"
         /\ tasks[j].result.size >= MinDownloadSize

\* a blob download of exactly the threshold was accepted after a direct
\* download somewhere left a file below it
SuccessSizeAtLeastThresholdWitness ==
  /\ \E r \in Produced :
       r.status = "success" /\ r.size = MinDownloadSize /\ r.strategy = "crxviewer"
  /\ \E r \in Produced :
       r.status = "not_found" /\ files[r.extensionId] = MinDownloadSize - 1

\* C6: if every identifier of a run ended success, the next run over the
\* same identifiers, with the artifacts still present, ends skipped for
\* every identifier and makes no strategy call, for every accepted size.
Idempotence ==
  (/\ phase = "done"
   /\ Len(returned) >= 2
   /\ \A p \in 1 .. N : returned[Len(returned) - 1][p].status = "success") =>
    /\ \A p \in 1 .. N : returned[Len(returned)][p].status = "skipped"
    /\ netCalls = 0

\* the records with status failed created so far by the current run
failedRecords ==
  Cardinality({p \in 1 .. Len(results) : results[p].status = "failed"})
    + Cardinality({j \in Slots : tasks[j].pc = "done"
                                   /\ tasks[j].result.status = "failed"})

\* C7: an identifier whose every attempt raises an exception into the outer
\* catch is attempted exactly retryAttempts times (the last attempt has
\* attempt = retryAttempts) and then returns failed; stats.failed is
\* incremented exactly once for it.
RetryCeiling ==
  /\ \A j \in Slots :
       /\ tasks[j].attempt <= retryAttempts(variant)
       /\ (tasks[j].pc = "done" /\ tasks[j].throws = tasks[j].attempt) =>
            /\ tasks[j].attempt = retryAttempts(variant)
            /\ tasks[j].result.status = "failed"
       /\ (tasks[j].pc = "done" /\ tasks[j].result.status = "failed") =>
            tasks[j].throws = retryAttempts(variant)
       /\ tasks[j].pc = "backoff" => tasks[j].throws = tasks[j].attempt
  /\ stats.failed = failedRecords

\* two identifiers of one batch failed after three throwing attempts each
RetryCeilingWitness ==
  /\ variant = "enhanced"
  /\ \A j \in Slots :
       /\ tasks[j].pc = "done"
       /\ tasks[j].result.status = "failed"
       /\ tasks[j].attempt = 3
  /\ stats.failed = 2

\* C8: within one attempt (crx-crawler.js) the strategies are called in the
\* order of downloadStrategies, each only after the one before it finished
\* without success; after the first success none is called and the result
\* names that strategy.
StrategyOrder ==
  \A j \in Slots :
    LET t == tasks[j]
        n == Len(t.tried)
    IN  /\ n <= Len(Strategies)
        /\ \A k \in 1 .. n :
             /\ t.tried[k][1] = Strategies[k]
             /\ k < n => t.tried[k][2] \in {"failed", "error"}
        /\ attempting(t) => n = t.strat /\ t.tried[n][2] = "running"
        /\ (n > 0 /\ ~attempting(t)) => t.tried[n][2] # "running"
        /\ (n > 0 /\ t.tried[n][2] = "success") =>
             /\ t.pc = "done"
             /\ t.result.status = "success"
             /\ t.result.strategy = Strategies[n]
        /\ (t.pc = "done" /\ t.result.status = "success") =>
             n > 0 /\ t.tried[n][2] = "success"

\* the third strategy succeeded after the first two failed
StrategyOrderWitness ==
  \E j \in Slots :
    /\ tasks[j].pc = "done"
    /\ tasks[j].result.status = "success"
    /\ tasks[j].result.strategy = "crxextractor"
    /\ Len(tasks[j].tried) = 3

\* C9: no task of a batch exists, not even in its staggered sleep, unless
\* every task of the batches before it has returned and their results have
\* been appended to the results list.
BatchBarrier ==
  \A j \in Slots :
    tasks[j].pc # "idle" =>
      /\ phase = "await"
      /\ j < concurrency
      /\ i + j + 1 <= N
      /\ tasks[j].id = extensionIds[i + j + 1]
      /\ Len(results) = i
      /\ \A p \in 1 .. i : results[p].status \in Statuses

\* a task of the third batch is in its staggered sleep
BatchBarrierWitness ==
  /\ concurrency = 2
  /\ i = 4
  /\ tasks[0].pc = "sleep"
  /\ Len(results) = 4

\* the lengths of the batches formed so far
batchSizes == [k \in 1 .. Len(batches) |-> Len(batches[k].ids)]

\* the positions of the input that a batch covers
positions(b) == {b.from + k : k \in 1 .. Len(b.ids)}

\* C10: processBatch forms ceil(N / C) contiguous batches, each of exactly C
\* identifiers except possibly the last (N mod C when that is not zero),
\* every input position is in exactly one batch, and C = 2, N = 5 gives
\* batches of sizes (2, 2, 1).
Partition ==
  phase \in {"report", "close", "done"} =>
    /\ Len(batches) * concurrency >= N
    /\ (Len(batches) - 1) * concurrency < N \/ (N = 0 /\ Len(batches) = 0)
    /\ \A k \in 1 .. Len(batches) :
         /\ batches[k].from = (k - 1) * concurrency
         /\ \A q \in 1 .. Len(batches[k].ids) :
              batches[k].ids[q] = extensionIds[batches[k].from + q]
         /\ k < Len(batches) => Len(batches[k].ids) = concurrency
         /\ k = Len(batches) =>
              Len(batches[k].ids) =
                IF N % concurrency = 0 THEN concurrency ELSE N % concurrency
    /\ \A p \in 1 .. N :
         Cardinality({k \in 1 .. Len(batches) : p \in positions(batches[k])}) = 1
    /\ (concurrency = 2 /\ N = 5) => batchSizes = <<2, 2, 1>>

\* five identifiers were processed two at a time
PartitionWitness ==
  /\ phase = "done"
  /\ concurrency = 2
  /\ N = 5
  /\ batchSizes = <<2, 2, 1>>

\* the value of results.length when the m-th checkpoint of the run was due
savedAt(m) == IF m = 0 THEN 0 ELSE checkpoints[m].processed

\* C11: after each batch a checkpoint is written if and only if
\* results.length - lastCheckpoint has reached the interval K, and after the
\* write lastCheckpoint is results.length: every checkpoint written covers at
\* least K results more than the one before it, lastCheckpoint is the length
\* the last one recorded, past the checkpoint step fewer than K results are
\* unsaved, and C = 2, N = 5, K = 4 on a fresh crawler writes exactly one
\* checkpoint before the final report.
CheckpointTrigger ==
  /\ stats.lastCheckpoint = savedAt(Len(checkpoints))
  /\ \A m \in 1 .. Len(checkpoints) :
       /\ checkpoints[m].processed = Len(checkpoints[m].results)
       /\ checkpoints[m].processed - savedAt(m - 1) >= checkpointInterval
       /\ checkpoints[m].results = SubSeq(results, 1, checkpoints[m].processed)
  /\ phase = "checkpoint" =>
       Len(results) - stats.lastCheckpoint >= checkpointInterval
  /\ phase \in {"await", "delay", "report", "close", "done"} =>
       Len(results) - stats.lastCheckpoint < checkpointInterval
  /\ (phase \in {"report", "close", "done"} /\ concurrency = 2 /\ N = 5
        /\ checkpointInterval = 4) => Len(checkpoints) = 1

\* five identifiers, two at a time, interval 4: the run ended with the one
\* checkpoint written after the second batch
CheckpointTriggerWitness ==
  /\ phase = "done"
  /\ concurrency = 2
  /\ N = 5
  /\ checkpointInterval = 4
  /\ Len(checkpoints) = 1
  /\ checkpoints[1].processed = 4
  /\ stats.lastCheckpoint = 4

\* the positions of a per-item async function that has not settled
Pending ==
  {"sleep", "stat", "gap", "backoff", "newpage", "page", "blobnew", "blobgoto",
   "blobwrite", "blobstat", "req", "pipe"}

\* C12: per-item failures never abort the run: whatever the strategies
\* report (failure value, exception, timeout) and whatever exception is
\* raised inside downloadExtension, the per-item function is pending or has
\* returned an ItemResult, never rejected; the run is never aborted, and it
\* can only come to rest after the final report, with one result per
\* identifier.
NoAbort ==
  /\ phase # "failed"
  /\ \A j \in Slots :
       /\ tasks[j].pc \in Pending \cup {"idle", "done"}
       /\ tasks[j].pc = "done" => tasks[j].result.status \in Statuses
  /\ ~ENABLED NextFail =>
       /\ phase = "done"
       /\ Len(returned) = 1
       /\ Len(results) = N

\* a run returned in which one identifier was classified failed after
\* exceptions and another not_found after strategies timed out and threw
NoAbortWitness ==
  /\ phase = "done"
  /\ variant = "enhanced"
  /\ N = 2
  /\ results[1].status = "failed"
  /\ results[2].status = "not_found"
  /\ stats.strategyStats["directapi"]["failed"] = 1
  /\ stats.strategyStats["crxviewer"]["error"] = 1

\* the records with status s created so far by the current run
recordsWith(s) ==
  Cardinality({p \in 1 .. Len(results) : results[p].status = s})
    + Cardinality({j \in Slots : tasks[j].pc = "done"
                                   /\ tasks[j].result.status = s})

\* completed + failed + notFound + skipped
processed(st) == st.completed + st.failed + st.notFound + st.skipped

\* C13: no lost increments: under every interleaving of the tasks of a run
\* on a fresh crawler each classification counter equals the number of
\* records created with that status, so at every batch boundary the four
\* counters sum to results.length and at the end of the run to stats.total.
NoLostIncrements ==
  /\ stats.completed = recordsWith("success")
  /\ stats.notFound = recordsWith("not_found")
  /\ stats.failed = recordsWith("failed")
  /\ stats.skipped = recordsWith("skipped")
  /\ phase \in {"checkpoint", "delay", "report", "close", "done"} =>
       processed(stats) = Len(results)
  /\ phase \in {"report", "close", "done"} => processed(stats) = stats.total

\* a run of five identifiers, two at a time, ended with three of the
\* counters incremented
NoLostIncrementsWitness ==
  /\ phase = "done"
  /\ concurrency = 2
  /\ N = 5
  /\ stats.completed >= 1
  /\ stats.notFound >= 1
  /\ stats.failed >= 1
  /\ processed(stats) = 5

\* the writers that have the artifact file of `id` open: file streams of
\* tasks, file streams of requests that outlived their promise, and blob
\* writes
writers(id) ==
  Cardinality({j \in Slots : tasks[j].id = id
                               /\ tasks[j].pc \in {"pipe", "blobwrite"}})
    + Cardinality({o \in orphans : o.id = id /\ o.pc = "pipe"})

\* the tasks that are processing `id`
processing(id) ==
  {j \in Slots : tasks[j].id = id /\ tasks[j].pc \in Pending \ {"sleep"}}

\* C14: no file contention: at no instant do two writers write the artifact
\* file of one identifier, and each identifier is processed by at most one
\* task at a time, for every list the loader can return, lists that repeat
\* an identifier included.
NoFileContention ==
  \A id \in Range(extensionIds) :
    /\ writers(id) <= 1
    /\ Cardinality(processing(id)) <= 1

\* a step of task j out of a strategy call: the call goes on (same strategy,
\* same or next endpoint), or ends in the inter-strategy sleep after a
\* failure, or returns success or not_found; the attempt number, the
\* exceptions seen by the outer catch and stats.failed are unchanged
containedStep(j) ==
  LET t == tasks[j]
      u == tasks'[j]
  IN  /\ (attempting(t) /\ u # t) =>
           /\ u.attempt = t.attempt
           /\ u.throws = t.throws
           /\ stats'.failed = stats.failed
           /\ attempting(u) \/ u.pc \in {"gap", "done"}
           /\ attempting(u) =>
                /\ u.strat = t.strat
                /\ u.url \in {t.url, t.url + 1}
                /\ u.tried = t.tried
           /\ u.pc = "gap" =>
                /\ Len(u.tried) = t.strat
                /\ u.tried[t.strat] \in {<<Strategies[t.strat], "failed">>,
                                         <<Strategies[t.strat], "error">>}
           /\ u.pc = "done" => u.result.status \in {"success", "not_found"}
      /\ (t.pc = "gap" /\ u # t) =>
           /\ u.attempt = t.attempt
           /\ stats'.failed = stats.failed
           /\ \/ attempting(u) /\ u.strat = t.strat + 1
              \/ /\ t.strat = Len(Strategies)
                 /\ u.pc = "done"
                 /\ u.result.status = "not_found"

\* C15: a transport error or timeout inside a strategy (request error,
\* non-success status, download timeout, page timeout) fails that strategy
\* only: the chain goes on with the next endpoint or strategy, the attempt
\* counter of downloadExtension is not increased and the item is not
\* classified failed by it.
StrategyFailureContained == [][\A j \in Slots : containedStep(j)]_vars

\* on the first attempt the first strategy threw, every endpoint of the
\* second timed out, and the third strategy is running
StrategyFailureContainedWitness ==
  \E j \in Slots :
    /\ tasks[j].attempt = 1
    /\ tasks[j].throws = 0
    /\ Len(tasks[j].tried) = 3
    /\ tasks[j].tried[1] = <<"crxviewer", "error">>
    /\ tasks[j].tried[2] = <<"directapi", "failed">>
    /\ attempting(tasks[j])

\* C16: RunStats is reset at run start: when a crawl() invocation starts,
\* the second one on the same crawler instance included, the counters
\* completed, failed, notFound, skipped, lastCheckpoint are zero and the
\* per-strategy counters are empty.
StatsResetAtRunStart ==
  phase \in {"mkdir", "init"} =>
    /\ stats.completed = 0
    /\ stats.failed = 0
    /\ stats.notFound = 0
    /\ stats.skipped = 0
    /\ stats.lastCheckpoint = 0
    /\ DOMAIN stats.strategyStats = {}

\* the entries of the breakdown of report `rep` that carry an error string
errorEntries(rep) ==
  Range(rep.breakdown.not_found_extensions)
    \cup Range(rep.breakdown.failed_extensions)

\* C19: the final report enumerates every non-success identifier: for every
\* result whose status is not success (not_found, failed or skipped) the
\* breakdown of the report holds an entry with that identifier and the
\* error string recorded in the result.
ReportEnumeratesNonSuccess ==
  phase = "done" =>
    \A p \in 1 .. Len(results) :
      results[p].status # "success" =>
        \E e \in errorEntries(reports[Len(reports)]) :
          /\ e.id = results[p].extensionId
          /\ "error" \in DOMAIN results[p] => e.error = results[p].error

\* C17: fatal configuration error: when the identifier source holds no valid
\* identifier at all, main() of either variant aborts at once with a
\* non-zero exit status: no batch is started and no strategy is invoked.
FatalOnNoValidIdentifier ==
  (Len(validIds(variant, source)) = 0 /\ phase # "idle") =>
    /\ phase = "exit1"
    /\ batches = << >>
    /\ netCalls = 0
    /\ \A j \in Slots : tasks[j].pc = "idle"

\* how often entry e occurs in the list s
occurrences(s, e) == Cardinality({k \in DOMAIN s : s[k] = e})

Cancellation ==
  phase = "interrupted" =>
    /\ \A j \in Slots : tasks[j].pc = "idle"
    /\ orphans = {}
    /\ ~ENABLED NextInterrupt

\* the signal arrived after the first result, while the strategy call of
\* the second identifier was in flight, and no report was written
CancellationWitness ==
  /\ phase = "interrupted"
  /\ concurrency = 1
  /\ N = 2
  /\ Len(results) = 1
  /\ netCalls = 2
  /\ reports = << >>
  /\ stats.completed + stats.notFound = 1

\* C21: a truncated partial artifact left by an abandoned, timed-out or
\* failed transfer is rejected by the existing-artifact check of the next
\* run: an identifier is skipped by a run only if the run before it, on a
\* directory that was empty at first, downloaded it with success or skipped
\* it itself.
TruncatedArtifactRejected ==
  (phase = "done" /\ Len(returned) >= 2) =>
    \A p \in 1 .. N :
      returned[Len(returned)][p].status = "skipped" =>
        returned[Len(returned) - 1][p].status \in {"success", "skipped"}

\* the attempt number of a task never exceeds retryAttempts and its strategy
\* calls never exceed retryAttempts x the number of configured strategies
attemptsBounded ==
  \A j \in Slots :
    /\ tasks[j].attempt <= retryAttempts(variant)
    /\ tasks[j].calls <= retryAttempts(variant) * Len(Strategies)

\* C22: bounded total attempts per item: downloadExtension ends with a
\* terminal ItemResult after at most retryAttempts attempts, and it invokes
\* at most retryAttempts x (number of configured strategies) strategies for
\* the identifier.
BoundedAttempts ==
  /\ [](attemptsBounded)
  /\ \A j \in Slots :
       (tasks[j].pc \in Pending) ~>
         (tasks[j].pc = "done" /\ tasks[j].result.status \in Statuses)

\* the first two attempts threw and the third called all four strategies
\* before the task returned
BoundedAttemptsWitness ==
  \E j \in Slots :
    /\ tasks[j].pc = "done"
    /\ tasks[j].attempt = 3
    /\ tasks[j].calls = 4

\* the attempt numbers over which the backoff formula is compared
MaxAttempt == 5

\* the delay the claim states for the sleep before attempt k + 1
statedDelay(v, k) ==
  LET base == IF v = "enhanced" THEN 5000 ELSE 2000
      cap == IF v = "enhanced" THEN 15000 ELSE 8000
  IN  IF base * k <= cap THEN base * k ELSE cap

\* C23: the delay slept before retry attempt k + 1 is min(base * k, cap),
\* base 5000 and cap 15000 in crx-crawler.js, base 2000 and cap 8000 in the
\* direct-API variant; over the attempts the delay increases strictly until
\* it reaches the cap and never exceeds the cap.
BackoffDelay ==
  /\ \A j \in Slots :
       tasks[j].pc = "backoff" =>
         tasks[j].delay = statedDelay(variant, tasks[j].attempt)
  /\ \A k \in 1 .. MaxAttempt :
       LET cap == IF variant = "enhanced" THEN 15000 ELSE 8000
       IN  /\ retryDelay(variant, k) = statedDelay(variant, k)
           /\ retryDelay(variant, k) <= cap
           /\ retryDelay(variant, k) <= retryDelay(variant, k + 1)
           /\ retryDelay(variant, k) < cap =>
                retryDelay(variant, k) < retryDelay(variant, k + 1)

\* a task sleeps its second backoff, longer than its first
BackoffDelayWitness ==
  \E j \in Slots :
    /\ tasks[j].pc = "backoff"
    /\ tasks[j].attempt = 2
    /\ tasks[j].delay = 10000

\* the input positions of the batches launched so far
launched == UNION {positions(batches[k]) : k \in 1 .. Len(batches)}

\* a checkpoint document holds one terminal record per input position up to
\* its processed count, in input order, and its counters sum to that count
consistent(c) ==
  /\ c.processed = Len(c.results)
  /\ c.processed = processed(c.stats)
  /\ c.processed <= N
  /\ \A p \in 1 .. Len(c.results) :
       /\ c.results[p].extensionId = extensionIds[p]
       /\ c.results[p].status \in Statuses

\* C24: every checkpoint written by a run on a fresh crawler contains
\* exactly the results of all items of the batches completed so far and no
\* result of a batch that has not completed; its processed count is the
\* length of its results list and is completed + failed + notFound + skipped
\* of its stats snapshot.
CheckpointConsistency ==
  /\ [](\A m \in 1 .. Len(checkpoints) : consistent(checkpoints[m]))
  /\ [][Len(checkpoints') > Len(checkpoints) =>
          LET c == checkpoints'[Len(checkpoints')]
          IN  /\ \A j \in Slots : tasks[j].pc = "idle"
              /\ c.results = results
              /\ launched = 1 .. Len(c.results)]_vars

\* two checkpoints were written, after the first and after the second batch
\* of two, and the second one records a download and an exhaustion
CheckpointConsistencyWitness ==
  /\ Len(checkpoints) = 2
  /\ checkpoints[1].processed = 2
  /\ checkpoints[2].processed = 4
  /\ checkpoints[2].stats.completed > 0
  /\ checkpoints[2].stats.notFound > 0
  /\ phase = "await"

\* the outcome recorded for the strategy call that task t made last
lastOutcome(t) == t.tried[Len(t.tried)][2]

\* C25: status-code convention of downloadFileDirectly: a 3xx response is
\* followed to its redirect target before the final response is evaluated, a
\* final 2xx response is evaluated as a candidate success subject to the
\* size check, and any other status code makes the call fail as a strategy
\* failure.
StatusCodeConvention ==
  \A j \in Slots :
    LET t == tasks[j]
    IN  t.statusCode # 0 =>
          /\ (t.statusCode \in 300 .. 399 /\ t.location) =>
               (t.pc = "req" /\ t.hop >= 1)
          /\ t.statusCode \in 200 .. 299 =>
               \/ t.pc = "pipe"
               \/ /\ files[t.id] # NoFile
                  /\ lastOutcome(t) =
                       IF files[t.id] >= 1000 THEN "success" ELSE "failed"
          /\ t.statusCode \notin 200 .. 399 =>
               (t.pc # "pipe" /\ lastOutcome(t) = "failed")

\* C26: when all strategies fail for an identifier on an attempt below the
\* attempt ceiling, the outer retry loop re-runs the whole strategy chain
\* after the backoff, up to the attempt ceiling, before the identifier
\* receives its terminal classification: a task that ended after an
\* exhaustion ended on its last attempt.
ExhaustionRerunsChain ==
  \A j \in Slots :
    (tasks[j].pc = "done" /\ tasks[j].exhaustedAt # 0) =>
      /\ tasks[j].exhaustedAt = retryAttempts(variant)
      /\ tasks[j].calls = retryAttempts(variant) * Len(Strategies)

\* the sum of one counter over the strategies `names` of strategyStats
RECURSIVE counted(_, _, _)
counted(ss, names, result) ==
  IF names = {}
    THEN 0
    ELSE LET n == CHOOSE x \in names : TRUE
         IN  ss[n][result] + counted(ss, names \ {n}, result)

\* the sum of a counter over all the strategies
total(result) ==
  counted(stats.strategyStats, DOMAIN stats.strategyStats, result)

\* the strategy invocations that have not settled
running ==
  Cardinality({j \in Slots : /\ tasks[j].tried # << >>
                             /\ lastOutcome(tasks[j]) = "running"})

\* C27: every strategy invocation increments exactly one of that strategy's
\* counters success, failed or error, exactly once: the counters sum to the
\* invocations that have settled; at every batch boundary the sum of success
\* over all strategies is stats.completed and the sum of all per-strategy
\* counters is the number of strategy invocations made so far.
PerStrategyAccounting ==
  /\ DOMAIN stats.strategyStats \subseteq Range(Strategies)
  /\ total("success") + total("failed") + total("error") + running = netCalls
  /\ total("success") = stats.completed
  /\ phase \in {"checkpoint", "delay", "report", "close", "done"} =>
       total("success") + total("failed") + total("error") = netCalls

\* a run ended with strategy invocations counted under each of the three
\* counters
PerStrategyAccountingWitness ==
  /\ phase = "done"
  /\ total("success") > 0
  /\ total("failed") > 0
  /\ total("error") > 0
  /\ netCalls >= 4

\* the step of task j that enters an attempt and awaits fs.stat
probing(j) == tasks[j].pc \in {"sleep", "backoff"} /\ tasks'[j].pc = "stat"

\* the step of task j that returns skipped
skipping(j) ==
  /\ tasks[j].pc = "stat"
  /\ tasks'[j].pc = "done"
  /\ tasks'[j].result.status = "skipped"

\* C28: frame of the skipped path: when the existing-artifact check is true,
\* downloadExtension changes nothing except stats.skipped, which it
\* increments by exactly 1: no file is created, written or truncated, no
\* per-strategy counter changes, completed, notFound and failed are
\* unchanged, and the record returned carries the path and the size of the
\* existing file.
SkippedFrame ==
  [][\A j \in Slots :
       /\ probing(j) => (files' = files /\ stats' = stats /\ pages' = pages)
       /\ skipping(j) =>
            /\ files' = files
            /\ pages' = pages
            /\ stats' = [stats EXCEPT !.skipped = @ + 1]
            /\ stats'.strategyStats = stats.strategyStats
            /\ tasks'[j].result.filepath = expectedFile(tasks[j].id)
            /\ tasks'[j].result.size = files[tasks[j].id]
            /\ tasks'[j].calls = tasks[j].calls]_vars

\* a task returned skipped on its first attempt while the directory holds
\* the file as it was and the only counter that moved is skipped
SkippedFrameWitness ==
  \E j \in Slots :
    /\ tasks[j].pc = "done"
    /\ tasks[j].result.status = "skipped"
    /\ tasks[j].attempt = 1
    /\ files[tasks[j].id] = 3000
    /\ tasks[j].result.size = 3000
    /\ stats.skipped = 1
    /\ processed(stats) = 1
    /\ DOMAIN stats.strategyStats = {}

\* the inter-batch delays slept so far, each followed by a batch launch
delaysSlept == Cardinality({k \in 1 .. Len(batches) : batches[k].delayed})

\* between the start of the inter-batch delay and its end no task exists,
\* the results of every batch launched are recorded and no checkpoint is due
delaySleptBetween ==
  phase = "delay" =>
    /\ \A j \in Slots : tasks[j].pc = "idle"
    /\ launched = 1 .. Len(results)
    /\ Len(results) < N
    /\ ~checkpointDue(results, stats)

\* the delay starts after the join or the checkpoint step of a batch and ends
\* with the launch of the next batch; every batch but the first is launched
\* at the end of a delay, and the report never follows a delay
delayStep ==
  /\ (phase # "delay" /\ phase' = "delay") => phase \in {"await", "checkpoint"}
  /\ (phase = "delay" /\ phase' # "delay") =>
       (phase' = "await" /\ Len(batches') = Len(batches) + 1)
  /\ (Len(batches') = Len(batches) + 1 /\ Len(batches) >= 1) => phase = "delay"

\* C29: the fixed inter-batch delay is slept exactly once between every two
\* consecutive batches, after the checkpoint step of the earlier batch and
\* before any task of the later batch starts, and is not slept after the
\* last batch; a run with B >= 1 batches sleeps it exactly B - 1 times.
InterBatchDelay ==
  /\ [](delaySleptBetween)
  /\ [](\A k \in 1 .. Len(batches) : batches[k].delayed <=> k > 1)
  /\ []((phase \in {"report", "close", "done"} /\ Len(batches) >= 1) =>
          delaysSlept = Len(batches) - 1)
  /\ [][delayStep]_vars

\* five identifiers two at a time: the run ended after three batches and two
\* inter-batch delays
InterBatchDelayWitness ==
  /\ phase = "done"
  /\ Len(batches) = 3
  /\ delaysSlept = 2

\* the step in which task j begins processing its identifier
begins(j) == tasks[j].pc = "sleep" /\ tasks'[j].pc # "sleep"

\* C30: within a batch the task at index j begins processing its identifier
\* only after a delay of j x stagger from the batch launch (1000 ms in
\* crx-crawler.js, 200 ms in the direct-API variant); the task at index 0
\* begins without delay, and the tasks of one batch begin in index order.
StaggeredStart ==
  /\ [](\A j \in Slots :
          tasks[j].pc = "sleep" =>
            /\ tasks[j].delay = j * (IF variant = "enhanced" THEN 1000 ELSE 200)
            /\ j = 0 => tasks[j].delay = 0
            /\ tasks[j].attempt = 0 /\ ~tasks[j].checked)
  /\ [](\A j, k \in Slots :
          (j < k /\ tasks[k].pc \notin {"idle", "sleep"}) =>
            tasks[j].pc \notin {"idle", "sleep"})
  /\ [][\A j \in Slots :
          begins(j) =>
            /\ tasks'[j].attempt = 1
            /\ \A k \in Slots : k < j => tasks[k].pc \notin {"idle", "sleep"}]_vars

\* the first task of a batch of the direct variant has begun while the
\* second one is in its sleep of 200 ms
StaggeredStartWitness ==
  /\ variant = "direct"
  /\ tasks[0].pc = "stat"
  /\ tasks[1].pc = "sleep"
  /\ tasks[1].delay = 200

\* sequence s is a prefix of sequence t
isPrefix(s, t) == Len(s) <= Len(t) /\ s = SubSeq(t, 1, Len(s))

\* the step that writes a checkpoint appends one document and touches neither
\* the live results nor a counter other than lastCheckpoint; the documents
\* written before are never changed and the live results only grow by pushes
additiveStep ==
  /\ isPrefix(checkpoints, checkpoints')
  /\ Len(checkpoints') <= Len(checkpoints) + 1
  /\ checkpoints' # checkpoints =>
       /\ results' = results
       /\ files' = files
       /\ [stats' EXCEPT !.lastCheckpoint = 0] = [stats EXCEPT !.lastCheckpoint = 0]
  /\ isPrefix(results, results')

\* C31: checkpoints are purely additive: within one run successive
\* checkpoints have strictly increasing processed counts, the results list
\* of an earlier checkpoint is a prefix of the results list of every later
\* one, writing a checkpoint never modifies the live results list or the
\* counters other than lastCheckpoint, and nothing is restored from a
\* checkpoint.
CheckpointsAdditive ==
  /\ [](\A m, n \in 1 .. Len(checkpoints) :
          m < n =>
            /\ checkpoints[m].processed < checkpoints[n].processed
            /\ isPrefix(checkpoints[m].results, checkpoints[n].results))
  /\ [](\A m \in 1 .. Len(checkpoints) : isPrefix(checkpoints[m].results, results))
  /\ [][additiveStep]_vars

\* the second checkpoint of a run extends the first by the results of one
\* more batch
CheckpointsAdditiveWitness ==
  /\ Len(checkpoints) = 2
  /\ checkpoints[1].processed < checkpoints[2].processed
  /\ checkpoints[1].results # << >>
  /\ phase = "done"

\* the number of success results of the run that name strategy x
successesOf(x) ==
  Cardinality({p \in 1 .. Len(results) :
                 /\ results[p].status = "success"
                 /\ results[p].strategy = x})

\* the strategies that appear in the results of the run
appearing ==
  {results[p].strategy : p \in {q \in 1 .. Len(results) : results[q].status = "success"}}

\* C32: most_effective_strategy in the final report of crx-crawler.js is a
\* strategy whose number of success results is maximal among all strategies
\* that appear in the results; it is the empty string exactly when there is
\* no success result with a strategy.
MostEffectiveStrategy ==
  (phase = "done" /\ variant = "enhanced") =>
    LET most == reports[Len(reports)].strategy_analysis.most_effective_strategy
    IN  /\ most = "" <=> appearing = {}
        /\ most # "" =>
             /\ most \in appearing
             /\ \A x \in appearing : successesOf(most) >= successesOf(x)

\* the strategy reported has two successes, and the success recorded last
\* is the only one of another strategy
MostEffectiveStrategyWitness ==
  /\ phase = "done"
  /\ variant = "enhanced"
  /\ Len(results) = 3
  /\ results[3].status = "success"
  /\ successesOf(results[3].strategy) = 1
  /\ successesOf(reports[Len(reports)].strategy_analysis.most_effective_strategy) = 2

\* the records of the runs so far that name an artifact
artifactRecords ==
  LET past == UNION {{returned[r][p] : p \in 1 .. Len(returned[r])} :
                       r \in 1 .. Len(returned)}
      now == {results[p] : p \in 1 .. Len(results)}
              \cup {tasks[j].result : j \in {k \in Slots : tasks[k].pc = "done"}}
  IN  {r \in past \cup now : r.status \in {"success", "skipped"}}

\* C33: deterministic artifact path: for every result with status success or
\* skipped, whatever strategy or endpoint produced it, the recorded filepath
\* is join(downloadDir, identifier + '.zip'); two runs with the same
\* downloadDir and identifier name the same path, and distinct identifiers
\* name distinct paths.
DeterministicPath ==
  /\ \A r \in artifactRecords : r.filepath = <<"downloadDir", r.extensionId, ".zip">>
  /\ \A r, q \in artifactRecords :
       r.extensionId = q.extensionId <=> r.filepath = q.filepath

\* the first run downloaded one identifier through the blob download and
\* the other through a direct download, and the second run skipped both
DeterministicPathWitness ==
  /\ Len(returned) = 2
  /\ Len(returned[1]) = 2
  /\ returned[1][1].status = "success" /\ returned[1][1].strategy = "crxviewer"
  /\ returned[1][2].status = "success" /\ returned[1][2].strategy = "directapi"
  /\ returned[2][1].status = "skipped"
  /\ returned[2][2].status = "skipped"
  /\ returned[2][1].filepath = returned[1][1].filepath

\* the items whose downloadExtension has returned in this run
completedItems ==
  Len(results) + Cardinality({j \in Slots : tasks[j].pc = "done"})

\* the processed count of the latest checkpoint written
latestSaved ==
  IF checkpoints = << >> THEN 0 ELSE checkpoints[Len(checkpoints)].processed

\* C34: unsaved-results bound: at the start of every batch
\* results.length - lastCheckpoint is less than the checkpoint interval K,
\* hence at any instant of a run on a fresh crawler fewer than K + C
\* completed items are missing from the latest checkpoint.
UnsavedBound ==
  /\ [][Len(batches') = Len(batches) + 1 =>
          Len(results') - stats'.lastCheckpoint < checkpointInterval]_vars
  /\ [](completedItems - latestSaved < checkpointInterval + concurrency)

\* one at a time with interval 2: one result is unsaved and the task of the
\* next batch has returned, K + C - 1 items in all
UnsavedBoundWitness ==
  /\ concurrency = 1
  /\ checkpointInterval = 2
  /\ phase = "await"
  /\ Len(checkpoints) = 1
  /\ completedItems - latestSaved = 2

\* a counter of the k-th strategy of the chain, 0 before its first use
counter(k, result) ==
  IF Strategies[k] \in DOMAIN stats.strategyStats
    THEN stats.strategyStats[Strategies[k]][result]
    ELSE 0

\* the invocations of the k-th strategy, and those that did not succeed
invoked(k) == counter(k, "success") + counter(k, "failed") + counter(k, "error")
unsuccessful(k) == counter(k, "failed") + counter(k, "error")

\* C35: strategy-chain funnel of crx-crawler.js: absent infrastructure
\* errors, at every batch boundary, success + failed + error of a strategy
\* equals failed + error of the strategy before it in the chain; the total
\* of the first strategy equals completed + notFound and failed + error of
\* the last strategy equals notFound.
StrategyFunnel ==
  (variant = "enhanced" /\ phase \in {"checkpoint", "delay", "report", "close", "done"}) =>
    /\ \A k \in 2 .. Len(Strategies) : invoked(k) = unsuccessful(k - 1)
    /\ invoked(1) = stats.completed + stats.notFound
    /\ unsuccessful(Len(Strategies)) = stats.notFound

\* a run ended with one identifier downloaded by the third strategy and one
\* not found
StrategyFunnelWitness ==
  /\ variant = "enhanced"
  /\ phase = "done"
  /\ invoked(1) = 2
  /\ invoked(3) = 2
  /\ counter(3, "success") = 1
  /\ invoked(4) = 1
  /\ stats.notFound = 1
  /\ counter(1, "error") + counter(2, "error") > 0

\* the phases of crawl() inside its try block
inTry == {"init", "await", "checkpoint", "delay", "report"}

\* the order of the steps of crawl()
lifecycleStep ==
  /\ (phase' = "init" /\ phase # "init") => phase = "mkdir"
  /\ (phase' = "await" /\ phase \notin {"await", "checkpoint", "delay"}) =>
       phase = "init"
  /\ reports' # reports =>
       /\ phase = "report"
       /\ Len(results) = N
       /\ \A j \in Slots : tasks[j].pc = "idle"
  /\ (phase \in inTry /\ phase' \notin inTry) => phase' \in {"close", "close_error"}
  /\ (phase' = "close" /\ phase # "close") => phase = "report"
  /\ closeCalls' > closeCalls =>
       (closeCalls' = 1 /\ phase \in {"close", "close_error"})
  /\ (phase' = "done" /\ phase # "done") =>
       (phase = "close" /\ returned' = Append(returned, results))
  /\ (phase' = "failed" /\ phase # "failed") =>
       (phase \in {"mkdir", "close_error"} /\ returned' = returned)

\* C36: run lifecycle of crawl(): the download directory is created before
\* initialize(), initialize() completes before the first batch starts, the
\* final report and results document are written only after the last batch
\* has completed, and close() is called exactly once on every exit path that
\* entered the try block, after which crawl() returns the results or
\* rethrows the error.
RunLifecycle ==
  /\ [][lifecycleStep]_vars
  /\ [](phase \in inTry \cup {"mkdir", "close", "close_error"} => closeCalls = 0)
  /\ [](phase = "done" => closeCalls = 1)
  /\ [](phase = "failed" => closeCalls \in {0, 1})
  /\ [](phase \in {"await", "checkpoint", "delay"} => Len(batches) >= 1)

\* crawl() rejected after a failed checkpoint write and one call of close(),
\* with a batch processed and nothing returned
RunLifecycleWitness ==
  /\ phase = "failed"
  /\ closeCalls = 1
  /\ Len(results) = 2
  /\ returned = << >>
  /\ reports = << >>

\* the run after saveCheckpoint rejected: no task exists, the batches
\* launched are the ones recorded, lastCheckpoint is where it was, and
\* neither a report nor a returned value exists
aborted ==
  /\ \A j \in Slots : tasks[j].pc = "idle"
  /\ launched = 1 .. Len(results)
  /\ Len(results) - stats.lastCheckpoint >= checkpointInterval
  /\ stats.lastCheckpoint = latestSaved
  /\ reports = << >>
  /\ returned = << >>

\* the step in which saveCheckpoint rejects, and the step that follows it
abortStep ==
  /\ (phase = "checkpoint" /\ checkpoints' = checkpoints) =>
       /\ phase' = "close_error"
       /\ stats' = stats
       /\ batches' = batches
       /\ results' = results
  /\ phase = "close_error" =>
       (phase' = "failed" /\ closeCalls' = closeCalls + 1)
  /\ phase = "failed" => phase' = "failed"

\* C37: a failure to write a checkpoint aborts the run: processBatch
\* rejects, no further batch is started, lastCheckpoint is not advanced, no
\* final report or results document is written, and crawl() rethrows after
\* calling close(); the results accumulated so far are not returned.
CheckpointFailureAborts ==
  /\ [](phase \in {"close_error", "failed"} => aborted)
  /\ [](phase = "failed" => closeCalls = 1)
  /\ [][abortStep]_vars

\* one at a time with interval 2 over three identifiers: the write after the
\* second batch failed and crawl() rejected with the third identifier
\* never started
CheckpointFailureAbortsWitness ==
  /\ phase = "failed"
  /\ concurrency = 1
  /\ N = 3
  /\ Len(results) = 2
  /\ Len(batches) = 2
  /\ stats.lastCheckpoint = 0

\* C38: every call of downloadFileDirectly eventually settles, whatever the
\* remote answers, redirects included; so every direct-API strategy attempt
\* ends and every batch is joined.
RequestsSettle ==
  /\ \A j \in Slots :
       (tasks[j].pc = "req") ~> (tasks[j].pc \in {"idle", "done"})
  /\ (phase = "await") ~> (phase # "await")

\* the pages a task has open at its position: the page of its strategy, and
\* the download page of downloadFileFromBlob
openPages(t) ==
  CASE t.pc \in {"page", "blobnew"} -> 1
    [] t.pc \in {"blobgoto", "blobwrite", "blobstat"} -> 2
    [] t.pc \in {"req", "pipe"} /\ Strategies[t.strat] # "directapi" -> 1
    [] OTHER -> 0

\* C39: no browser page leak: every page a browser strategy opened is closed
\* when the strategy call has returned or thrown, so the open pages are
\* those of the strategy calls in progress, at most 2 x C at any instant
\* and none at a batch boundary.
NoPageLeak ==
  /\ pages = openPages(tasks[0]) + openPages(tasks[1])
  /\ pages <= 2 * concurrency
  /\ phase # "await" => pages = 0
  /\ \A j \in Slots : j >= concurrency => openPages(tasks[j]) = 0

\* one at a time: the first identifier was downloaded through the blob page
\* and both pages were closed; the task of the second has both of its own
\* pages open
NoPageLeakWitness ==
  /\ concurrency = 1
  /\ Len(results) = 1
  /\ results[1].status = "success"
  /\ results[1].strategy = "crxviewer"
  /\ tasks[0].pc = "blobstat"
  /\ pages = 2

=============================================================================
